---- MODULE Spec2Model ----
(***************************************************************************)
(* A model of next-trace/scg-database: the adapter registry and the        *)
(* query-builder-factory registry (package db), the Connect facade, the    *)
(* GORM repository / query builder and the GORM connection's transaction.  *)
(*                                                                         *)
(* The module holds several specifications over one set of variables; a   *)
(* specification leaves the variables of the other parts at their initial  *)
(* value.                                                                  *)
(*   SpecRegistry : goroutines calling Register/Get/List on the            *)
(*                  query-builder registry and RegisterAdapter/GetAdapter  *)
(*                  on the adapter registry, with the RWMutex steps.       *)
(***************************************************************************)
EXTENDS Integers, Sequences, FiniteSets, TLC

(***************************************************************************)
(* Bounds of the model.                                                    *)
(***************************************************************************)
\* number of goroutines that call the registries concurrently
NumProcs == 2
\* most names passed to one RegisterAdapter call
MaxNames == 2

(***************************************************************************)
(* Values.                                                                 *)
(***************************************************************************)
\* a nil interface value (adapter, factory, connection)
Nil == "nil"
\* no goroutine
NoProc == 0
Procs == 1..NumProcs
\* registry keys a caller may pass; "" is the empty name
Names == {"", "fam:a", "fam:b"}
\* query-builder factory instances
Factories == {"f1", "f2"}
\* adapter instances
Adapters == {"ad1", "ad2"}
\* a nil error; every error value is a record
NilErr == [isNil |-> TRUE]
\* no panic
NoPanic == ""

VARIABLES
    factories,   \* queryBuilderRegistry.factories : name -> factory
    mu,          \* queryBuilderRegistry.mu
    adapters,    \* package variable adapters : name -> adapter
    adaptersMu,  \* package variable adaptersMu
    pc,          \* per goroutine: position in its current registry call
    op,          \* per goroutine: the registry operation it is in
    ret,         \* per goroutine: arguments and results of the call body
    okFactory,   \* history: name -> factory of the last Register call that did not panic
    okAdapter,   \* history: name -> adapter of the last RegisterAdapter call that did not panic
    target       \* the registry the goroutines of this run call

regVars == <<factories, mu, adapters, adaptersMu, pc, op, ret, okFactory, okAdapter, target>>

\* db.Connect, and the one goroutine that calls it
VARIABLES
    cfg,      \* the *config.Config given to Connect
    opts,     \* the options given to Connect
    cpc,      \* position of the Connect call
    cAdapter, \* Connect's local variable adapter
    cConn,    \* Connect's local variable conn
    calls,    \* the steps taken and calls made by the current Connect, in order
    cret,     \* what Connect returned (or the panic it raised)
    lastReg,  \* the arguments of the latest RegisterAdapter call, when it did not panic
    gret      \* the result of the GetAdapter call just made

connVars == <<cfg, opts, cpc, cAdapter, cConn, calls, cret, lastReg, gret>>

\* the GORM repository and query builder
VARIABLES
    heap,     \* the gorm.Statement objects allocated so far, by address 1..Len(heap)
    slots,    \* the Repository / QueryBuilder values the caller holds, in order of creation
    made,     \* for each of them, the clauses it carried when it was returned
    lastOp    \* the clause operation that made the latest of them

bldVars == <<heap, slots, made, lastOp>>

\* the GORM connection's transactions
VARIABLES
    txCfg,      \* what the linked gorm does: DB() on a transaction handle, DisableNestedTransaction
    persisted,  \* the writes that are durable in the database
    frames,     \* the Transaction calls whose fn is running, outermost first
    nextW,      \* the id of the next write
    txCount,    \* the Transaction calls made so far
    tret,       \* what the latest finished Transaction call did and returned
    sret        \* the result of the latest Statement call

txVars == <<txCfg, persisted, frames, nextW, txCount, tret, sret>>

\* the bridge between []contract.Model and a concrete slice
VARIABLES
    bridge    \* one use of it: the arguments, and the results of the conversions applied so far

brVars == <<bridge>>

\* the rows behind the GORM repositories
VARIABLES
    table,    \* the rows of the repository's model: id -> [name, deleted]
    rret      \* the latest terminal operation: its arguments, backend calls and results

repoVars == <<table, rret>>

VARIABLES
    seeding,  \* the seeder runner's call: its connection, its seeders, how far it came
    migr      \* the NewMigrator call in progress and the SQL handles opened so far

toolVars == <<seeding, migr>>

\* the variables an action of one part leaves alone: those of the other parts
OutsideRegistry == <<connVars, bldVars, txVars, brVars, repoVars, toolVars>>

OutsideConnect == <<factories, mu, pc, op, ret, okFactory, okAdapter, target, bldVars, txVars, brVars, repoVars, toolVars>>

OutsideBuilder == <<regVars, connVars, txVars, brVars, repoVars, toolVars>>

OutsideTx == <<regVars, connVars, bldVars, brVars, repoVars, toolVars>>

OutsideBridge == <<regVars, connVars, bldVars, txVars, repoVars, toolVars>>

OutsideRepo == <<regVars, connVars, bldVars, txVars, brVars, toolVars>>

OutsideTools == <<regVars, connVars, bldVars, txVars, brVars, repoVars>>

(***************************************************************************)
(* Go maps as functions on a finite set of keys.                           *)
(***************************************************************************)
EmptyMap == [k \in {} |-> Nil]

MapPut(m, k, v) == [x \in (DOMAIN m) \cup {k} |-> IF x = k THEN v ELSE m[x]]

(***************************************************************************)
(* fmt.Errorf without %w: an error whose message is the sequence of the    *)
(* format's literal parts and formatted arguments, in order.               *)
(***************************************************************************)
Errorf(parts) == [msg |-> parts]

MsgContains(e, s) == \E i \in 1..Len(e.msg) : e.msg[i] = s

(***************************************************************************)
(* sync.RWMutex.  w is the goroutine that holds the writer side (from the  *)
(* moment Lock has announced itself, also while it still waits for the     *)
(* readers to leave), r the goroutines that hold a read lock.  RLock       *)
(* blocks while a writer holds or has announced itself; Lock blocks while  *)
(* another writer has.                                                     *)
(***************************************************************************)
FreeMutex == [w |-> NoProc, r |-> {}]

CanLock(l) == l.w = NoProc

\* mutant: RLock does not wait for a writer
CanRLock_IgnoresWriter(l) == TRUE

CanRLock(l) == l.w = NoProc

LockBegin(l, p) == [l EXCEPT !.w = p]

WriterMayEnter(l, p) == l.w = p /\ l.r = {}

Unlock(l, p) == [l EXCEPT !.w = NoProc]

RLock(l, p) == [l EXCEPT !.r = @ \cup {p}]

RUnlock(l, p) == [l EXCEPT !.r = @ \ {p}]

(***************************************************************************)
(* queryBuilderRegistry: the bodies of Register, Get and List, between     *)
(* taking the lock and the deferred release.                               *)
(***************************************************************************)
\* mutant: Register without the nil check
RegisterBody_NoNilCheck(m, adapterName, factory) ==
    IF adapterName = "" THEN [panic |-> "adapter name cannot be empty", m |-> m]
    ELSE [panic |-> NoPanic, m |-> MapPut(m, adapterName, factory)]

RegisterBody(m, adapterName, factory) ==
    IF adapterName = "" THEN [panic |-> "adapter name cannot be empty", m |-> m]
    ELSE IF factory = Nil THEN [panic |-> "factory cannot be nil", m |-> m]
    ELSE [panic |-> NoPanic, m |-> MapPut(m, adapterName, factory)]

GetBody(m, adapterName) ==
    IF adapterName \notin DOMAIN m
    THEN [val |-> Nil,
          err |-> Errorf(<<"query builder factory not found for adapter: ", adapterName>>)]
    ELSE [val |-> m[adapterName], err |-> NilErr]

\* the slices List can return: the keys of the map, each once, in any order
ListBody(m) ==
    {s \in UNION {[1..n -> DOMAIN m] : n \in {Cardinality(DOMAIN m)}} :
        \A i, j \in DOMAIN s : i # j => s[i] # s[j]}

(***************************************************************************)
(* The adapter registry: RegisterAdapter and GetAdapter.                   *)
(***************************************************************************)
\* mutant: the loop binds the first name only
RegisterAdapterLoop_FirstNameOnly(m, adapter, names, i) ==
    IF \E k \in i..Len(names) : names[k] = ""
    THEN [panic |-> "cannot register adapter with an empty name", m |-> m]
    ELSE [panic |-> NoPanic, m |-> MapPut(m, names[i], adapter)]

RECURSIVE RegisterAdapterLoop(_, _, _, _)
RegisterAdapterLoop(m, adapter, names, i) ==
    IF i > Len(names) THEN [panic |-> NoPanic, m |-> m]
    ELSE IF names[i] = ""
         THEN [panic |-> "cannot register adapter with an empty name", m |-> m]
         ELSE RegisterAdapterLoop(MapPut(m, names[i], adapter), adapter, names, i + 1)

RegisterAdapterBody(m, adapter, names) ==
    IF adapter = Nil THEN [panic |-> "cannot register a nil database adapter", m |-> m]
    ELSE IF Len(names) = 0
         THEN [panic |-> "cannot register adapter without at least one name", m |-> m]
         ELSE RegisterAdapterLoop(m, adapter, names, 1)

\* %q prints the name between double quotes
GetAdapterBody(m, name) ==
    IF name \notin DOMAIN m
    THEN [val |-> Nil,
          err |-> Errorf(<<"unknown database adapter ", "\"", name, "\"",
                           " (is the adapter package imported?)">>)]
    ELSE [val |-> m[name], err |-> NilErr]

NameLists == UNION {[1..n -> Names] : n \in 0..MaxNames}

NoRet == [kind |-> "none"]

(***************************************************************************)
(* A goroutine inside a call: "wwait" after Lock has announced itself and  *)
(* waits for the readers, "cs" inside the critical section before the      *)
(* body, "exit" after the body (or its panic) with the deferred unlock     *)
(* still to run.  The two registries share no state and no lock, so a run  *)
(* of SpecRegistry has its goroutines call one of them (target).           *)
(***************************************************************************)
RegistryStart ==
    /\ factories = EmptyMap
    /\ mu = FreeMutex
    /\ adapters = EmptyMap
    /\ adaptersMu = FreeMutex
    /\ pc = [p \in Procs |-> "idle"]
    /\ op = [p \in Procs |-> "none"]
    /\ ret = [p \in Procs |-> NoRet]
    /\ okFactory = EmptyMap
    /\ okAdapter = EmptyMap


\* r.mu.Lock() of Register
Register_Lock(p) ==
    /\ pc[p] = "idle" /\ target = "factories"
    /\ CanLock(mu)
    /\ mu' = LockBegin(mu, p)
    /\ pc' = [pc EXCEPT ![p] = IF WriterMayEnter(mu', p) THEN "cs" ELSE "wwait"]
    /\ op' = [op EXCEPT ![p] = "Register"]
    /\ UNCHANGED <<factories, adapters, adaptersMu, ret, okFactory, okAdapter, target>>
    /\ UNCHANGED OutsideRegistry

\* Lock returns once the readers have left
Register_Enter(p) ==
    /\ pc[p] = "wwait" /\ op[p] = "Register"
    /\ WriterMayEnter(mu, p)
    /\ pc' = [pc EXCEPT ![p] = "cs"]
    /\ UNCHANGED <<factories, mu, adapters, adaptersMu, op, ret, okFactory, okAdapter, target>>
    /\ UNCHANGED OutsideRegistry

Register_Body(p) ==
    /\ pc[p] = "cs" /\ op[p] = "Register"
    /\ \E adapterName \in Names, factory \in Factories \cup {Nil} :
         LET b == RegisterBody(factories, adapterName, factory) IN
         /\ factories' = b.m
         /\ ret' = [ret EXCEPT ![p] = [kind |-> "Register", name |-> adapterName,
                                       impl |-> factory, panic |-> b.panic,
                                       before |-> factories]]
         /\ okFactory' = IF b.panic = NoPanic
                         THEN MapPut(okFactory, adapterName, factory) ELSE okFactory
    /\ pc' = [pc EXCEPT ![p] = "exit"]
    /\ UNCHANGED <<mu, adapters, adaptersMu, op, okAdapter, target>>
    /\ UNCHANGED OutsideRegistry

\* a Register whose unlock is not deferred: it runs on return only
Register_Unlock_OnReturnOnly(p) ==
    /\ pc[p] = "exit" /\ op[p] = "Register"
    /\ mu' = IF ret[p].panic # NoPanic THEN mu ELSE Unlock(mu, p)
    /\ pc' = [pc EXCEPT ![p] = "idle"]
    /\ op' = [op EXCEPT ![p] = "none"]
    /\ ret' = [ret EXCEPT ![p] = NoRet]
    /\ UNCHANGED <<factories, adapters, adaptersMu, okFactory, okAdapter, target>>
    /\ UNCHANGED OutsideRegistry

\* defer r.mu.Unlock(): runs on return and on panic
Register_Unlock(p) ==
    /\ pc[p] = "exit" /\ op[p] = "Register"
    /\ mu' = Unlock(mu, p)
    /\ pc' = [pc EXCEPT ![p] = "idle"]
    /\ op' = [op EXCEPT ![p] = "none"]
    /\ ret' = [ret EXCEPT ![p] = NoRet]
    /\ UNCHANGED <<factories, adapters, adaptersMu, okFactory, okAdapter, target>>
    /\ UNCHANGED OutsideRegistry

Get_RLock(p) ==
    /\ pc[p] = "idle" /\ target = "factories"
    /\ CanRLock(mu)
    /\ mu' = RLock(mu, p)
    /\ pc' = [pc EXCEPT ![p] = "cs"]
    /\ op' = [op EXCEPT ![p] = "Get"]
    /\ UNCHANGED <<factories, adapters, adaptersMu, ret, okFactory, okAdapter, target>>
    /\ UNCHANGED OutsideRegistry

Get_Body(p) ==
    /\ pc[p] = "cs" /\ op[p] = "Get"
    /\ \E adapterName \in Names :
         LET b == GetBody(factories, adapterName) IN
         ret' = [ret EXCEPT ![p] = [kind |-> "Get", name |-> adapterName,
                                    val |-> b.val, err |-> b.err,
                                    before |-> factories]]
    /\ pc' = [pc EXCEPT ![p] = "exit"]
    /\ UNCHANGED <<factories, mu, adapters, adaptersMu, op, okFactory, okAdapter, target>>
    /\ UNCHANGED OutsideRegistry

Get_RUnlock(p) ==
    /\ pc[p] = "exit" /\ op[p] = "Get"
    /\ mu' = RUnlock(mu, p)
    /\ pc' = [pc EXCEPT ![p] = "idle"]
    /\ op' = [op EXCEPT ![p] = "none"]
    /\ ret' = [ret EXCEPT ![p] = NoRet]
    /\ UNCHANGED <<factories, adapters, adaptersMu, okFactory, okAdapter, target>>
    /\ UNCHANGED OutsideRegistry

List_RLock(p) ==
    /\ pc[p] = "idle" /\ target = "factories"
    /\ CanRLock(mu)
    /\ mu' = RLock(mu, p)
    /\ pc' = [pc EXCEPT ![p] = "cs"]
    /\ op' = [op EXCEPT ![p] = "List"]
    /\ UNCHANGED <<factories, adapters, adaptersMu, ret, okFactory, okAdapter, target>>
    /\ UNCHANGED OutsideRegistry

List_Body(p) ==
    /\ pc[p] = "cs" /\ op[p] = "List"
    /\ \E names \in ListBody(factories) :
         ret' = [ret EXCEPT ![p] = [kind |-> "List", names |-> names,
                                    before |-> factories]]
    /\ pc' = [pc EXCEPT ![p] = "exit"]
    /\ UNCHANGED <<factories, mu, adapters, adaptersMu, op, okFactory, okAdapter, target>>
    /\ UNCHANGED OutsideRegistry

List_RUnlock(p) ==
    /\ pc[p] = "exit" /\ op[p] = "List"
    /\ mu' = RUnlock(mu, p)
    /\ pc' = [pc EXCEPT ![p] = "idle"]
    /\ op' = [op EXCEPT ![p] = "none"]
    /\ ret' = [ret EXCEPT ![p] = NoRet]
    /\ UNCHANGED <<factories, adapters, adaptersMu, okFactory, okAdapter, target>>
    /\ UNCHANGED OutsideRegistry

RegisterAdapter_Lock(p) ==
    /\ pc[p] = "idle" /\ target = "adapters"
    /\ CanLock(adaptersMu)
    /\ adaptersMu' = LockBegin(adaptersMu, p)
    /\ pc' = [pc EXCEPT ![p] = IF WriterMayEnter(adaptersMu', p) THEN "cs" ELSE "wwait"]
    /\ op' = [op EXCEPT ![p] = "RegisterAdapter"]
    /\ UNCHANGED <<factories, mu, adapters, ret, okFactory, okAdapter, target>>
    /\ UNCHANGED OutsideRegistry

RegisterAdapter_Enter(p) ==
    /\ pc[p] = "wwait" /\ op[p] = "RegisterAdapter"
    /\ WriterMayEnter(adaptersMu, p)
    /\ pc' = [pc EXCEPT ![p] = "cs"]
    /\ UNCHANGED <<factories, mu, adapters, adaptersMu, op, ret, okFactory, okAdapter, target>>
    /\ UNCHANGED OutsideRegistry

RECURSIVE PutAll(_, _, _, _)
PutAll(m, names, v, i) ==
    IF i > Len(names) THEN m ELSE PutAll(MapPut(m, names[i], v), names, v, i + 1)

RegisterAdapter_Body(p) ==
    /\ pc[p] = "cs" /\ op[p] = "RegisterAdapter"
    /\ \E adapter \in Adapters \cup {Nil}, names \in NameLists :
         LET b == RegisterAdapterBody(adapters, adapter, names) IN
         /\ adapters' = b.m
         /\ ret' = [ret EXCEPT ![p] = [kind |-> "RegisterAdapter", names |-> names,
                                       impl |-> adapter, panic |-> b.panic,
                                       before |-> adapters]]
         /\ okAdapter' = IF b.panic = NoPanic
                         THEN PutAll(okAdapter, names, adapter, 1) ELSE okAdapter
    /\ pc' = [pc EXCEPT ![p] = "exit"]
    /\ UNCHANGED <<factories, mu, adaptersMu, op, okFactory, target>>
    /\ UNCHANGED OutsideRegistry

RegisterAdapter_Unlock(p) ==
    /\ pc[p] = "exit" /\ op[p] = "RegisterAdapter"
    /\ adaptersMu' = Unlock(adaptersMu, p)
    /\ pc' = [pc EXCEPT ![p] = "idle"]
    /\ op' = [op EXCEPT ![p] = "none"]
    /\ ret' = [ret EXCEPT ![p] = NoRet]
    /\ UNCHANGED <<factories, mu, adapters, okFactory, okAdapter, target>>
    /\ UNCHANGED OutsideRegistry

GetAdapter_RLock(p) ==
    /\ pc[p] = "idle" /\ target = "adapters"
    /\ CanRLock(adaptersMu)
    /\ adaptersMu' = RLock(adaptersMu, p)
    /\ pc' = [pc EXCEPT ![p] = "cs"]
    /\ op' = [op EXCEPT ![p] = "GetAdapter"]
    /\ UNCHANGED <<factories, mu, adapters, ret, okFactory, okAdapter, target>>
    /\ UNCHANGED OutsideRegistry

GetAdapter_Body(p) ==
    /\ pc[p] = "cs" /\ op[p] = "GetAdapter"
    /\ \E name \in Names :
         LET b == GetAdapterBody(adapters, name) IN
         ret' = [ret EXCEPT ![p] = [kind |-> "GetAdapter", name |-> name,
                                    val |-> b.val, err |-> b.err,
                                    before |-> adapters]]
    /\ pc' = [pc EXCEPT ![p] = "exit"]
    /\ UNCHANGED <<factories, mu, adapters, adaptersMu, op, okFactory, okAdapter, target>>
    /\ UNCHANGED OutsideRegistry

GetAdapter_RUnlock(p) ==
    /\ pc[p] = "exit" /\ op[p] = "GetAdapter"
    /\ adaptersMu' = RUnlock(adaptersMu, p)
    /\ pc' = [pc EXCEPT ![p] = "idle"]
    /\ op' = [op EXCEPT ![p] = "none"]
    /\ ret' = [ret EXCEPT ![p] = NoRet]
    /\ UNCHANGED <<factories, mu, adapters, okFactory, okAdapter, target>>
    /\ UNCHANGED OutsideRegistry

(***************************************************************************)
(* Registry claims.                                                        *)
(***************************************************************************)
InCS(p) == pc[p] \in {"cs", "exit"}

Writers(ops) == {p \in Procs : InCS(p) /\ op[p] \in ops}

Readers(ops) == {p \in Procs : InCS(p) /\ op[p] \in ops}

Range(f) == {f[x] : x \in DOMAIN f}

\* what a lookup of name must give when ok holds the registrations made so far
LookupAgrees(r, ok) ==
    IF r.name \in DOMAIN ok
    THEN r.val = ok[r.name] /\ r.err = NilErr
    ELSE r.val = Nil /\ r.err # NilErr /\ MsgContains(r.err, r.name)

\* C1 (as claimed): in each registry, Get(name) returns the implementation of
\* the most recent Register call for that name, and a LookupError naming the
\* key (and nothing else) when no Register call registered the name; a
\* Register leaves the entries under other names as they were and a Get
\* leaves the registry as it was.
C1_GetReturnsLastRegistered ==
    \A p \in Procs :
        pc[p] = "exit" =>
            /\ ret[p].kind = "Get" =>
                   LookupAgrees(ret[p], okFactory) /\ factories = ret[p].before
            /\ ret[p].kind = "GetAdapter" =>
                   LookupAgrees(ret[p], okAdapter) /\ adapters = ret[p].before
            /\ (ret[p].kind = "Register" /\ ret[p].panic = NoPanic) =>
                   \A k \in DOMAIN ret[p].before \ {ret[p].name} :
                       k \in DOMAIN factories /\ factories[k] = ret[p].before[k]
            /\ (ret[p].kind = "RegisterAdapter" /\ ret[p].panic = NoPanic) =>
                   \A k \in DOMAIN ret[p].before \ Range(ret[p].names) :
                       k \in DOMAIN adapters /\ adapters[k] = ret[p].before[k]

\* C2: a Register with an empty name or a nil factory panics, a
\* RegisterAdapter with a nil adapter, no name or an empty name panics, and
\* no registry ever holds an empty name or a nil implementation.
C2_InvalidRegisterPanics ==
    /\ \A p \in Procs :
        pc[p] = "exit" =>
            /\ (ret[p].kind = "Register" /\ (ret[p].name = "" \/ ret[p].impl = Nil)) =>
                   ret[p].panic # NoPanic
            /\ (ret[p].kind = "RegisterAdapter"
                    /\ (ret[p].impl = Nil \/ Len(ret[p].names) = 0
                            \/ "" \in Range(ret[p].names))) =>
                   ret[p].panic # NoPanic
    /\ "" \notin DOMAIN factories /\ Nil \notin Range(factories)
    /\ "" \notin DOMAIN adapters /\ Nil \notin Range(adapters)

\* C2 witness: a Register with an empty name has panicked on a registry that
\* holds entries, and so has a RegisterAdapter with a nil adapter.
C2_Witness ==
    \E p \in Procs :
        /\ pc[p] = "exit"
        /\ \/ ret[p].kind = "Register" /\ ret[p].name = "" /\ ret[p].impl # Nil
              /\ ret[p].panic # NoPanic /\ DOMAIN factories # {}
           \/ ret[p].kind = "RegisterAdapter" /\ ret[p].impl = Nil
              /\ Len(ret[p].names) > 0
              /\ ret[p].panic # NoPanic /\ DOMAIN adapters # {}

Quiescent == \A p \in Procs : pc[p] = "idle"

\* C3: in each registry a Register inside its critical section excludes every
\* other Register, Get and List; once no call is in progress, Get returns the
\* implementation the last completed Register gave for each registered name
\* and every slice List can return contains the name.
C3_WriterExcludesAll ==
    /\ \A p \in Writers({"Register"}) :
           Writers({"Register"}) \cup Readers({"Get", "List"}) = {p}
    /\ \A p \in Writers({"RegisterAdapter"}) :
           Writers({"RegisterAdapter"}) \cup Readers({"GetAdapter"}) = {p}
    /\ Quiescent =>
           \A n \in DOMAIN okFactory :
               /\ GetBody(factories, n).val = okFactory[n]
               /\ GetBody(factories, n).err = NilErr
               /\ \A l \in ListBody(factories) : n \in Range(l)

\* C3 witness: two readers are inside their critical sections at once, on a
\* registry a Register has written.
C3_Witness ==
    \E p, q \in Procs :
        /\ p # q
        /\ \/ /\ {p, q} \subseteq Readers({"Get", "List"})
              /\ op[p] = "Get" /\ op[q] = "List"
              /\ DOMAIN factories # {}
           \/ /\ {p, q} \subseteq Readers({"GetAdapter"})
              /\ DOMAIN adapters # {}

(***************************************************************************)
(* db.Connect.  One goroutine registers adapters, looks them up and calls  *)
(* Connect; Connect is followed statement by statement.  calls is the      *)
(* order in which Connect's steps and its calls on the adapter and on the  *)
(* connection happened.                                                    *)
(***************************************************************************)
\* most options passed to one Connect call
MaxOpts == 1

\* errors.New
ErrorsNew(text) == [msg |-> <<text>>]

\* db.NewError: a *db.Error wrapping err
NewError(operation, message, err) ==
    [Operation |-> operation, Message |-> message, Err |-> err]

NewConfigValidationError(err) == NewError("Connect", "config validation failed", err)

ErrInvalidAdapter == ErrorsNew("invalid adapter type")

NewInvalidAdapterError == NewError("Connect", "invalid adapter type provided in config", ErrInvalidAdapter)

NewAdapterLookupError(err) == NewError("Connect", "adapter lookup failed", err)

NewAdapterConnectError(err) == NewError("Connect", "adapter connect failed", err)

NewConnectionPingError(err) == NewError("Connect", "initial database ping failed", err)

\* db.Error.Unwrap; an error made by errors.New or fmt.Errorf wraps nothing
Unwrap(e) == IF "Err" \in DOMAIN e THEN e.Err ELSE NilErr

\* target is e or is reached from e by unwrapping
RECURSIVE Wraps(_, _)
Wraps(e, t) == IF e = NilErr THEN FALSE ELSE e = t \/ Wraps(Unwrap(e), t)

\* a value put in Config.Adapter that does not implement contract.DBAdapter
NotAnAdapter == "notAnAdapter"

Configs == [Driver : Names, DSN : {"", "dsn"}, Adapter : Adapters \cup {Nil, NotAnAdapter}]

\* config.Option: a function that changes the Config; here, one that sets a field
WithAdapter(a) == [field |-> "Adapter", value |-> a]

Options ==
    {WithAdapter(a) : a \in Adapters \cup {Nil}}
        \cup {[field |-> "DSN", value |-> ""], [field |-> "Driver", value |-> "fam:b"]}

OptLists == UNION {[1..n -> Options] : n \in 0..MaxOpts}

RECURSIVE ApplyOptions(_, _, _)
ApplyOptions(c, os, i) ==
    IF i > Len(os) THEN c
    ELSE ApplyOptions([c EXCEPT ![os[i].field] = os[i].value], os, i + 1)

\* mutant: Validate without the DSN check
Validate_DriverOnly(c) ==
    IF c.Driver = "" THEN ErrorsNew("database driver is required") ELSE NilErr

\* config.Config.Validate
Validate(c) ==
    IF c.Driver = "" THEN ErrorsNew("database driver is required")
    ELSE IF c.DSN = "" THEN ErrorsNew("database dsn is required")
    ELSE NilErr

\* the connection an adapter hands out
ConnOf(a) == IF a = "ad1" THEN "conn1" ELSE "conn2"

ErrConnect == ErrorsNew("adapter failed")

ErrPing == ErrorsNew("ping failed")

ErrClose == ErrorsNew("close failed")

\* what an adapter's Connect may return: any combination of a connection or
\* nil with an error or nil
AdapterConnectResults(a) ==
    [conn : {ConnOf(a), Nil}, err : {NilErr, ErrConnect}]

Call(name, arg, err) == [call |-> name, arg |-> arg, err |-> err]

NoCRet == [conn |-> Nil, err |-> NilErr, panic |-> NoPanic]

NoLastReg == [ok |-> FALSE]

NoGRet == [name |-> "", val |-> Nil, err |-> NilErr, made |-> FALSE]

ConnectStart ==
    /\ cfg = [Driver |-> "", DSN |-> "", Adapter |-> Nil]
    /\ opts = <<>>
    /\ cpc = "idle"
    /\ cAdapter = Nil
    /\ cConn = Nil
    /\ calls = <<>>
    /\ cret = NoCRet
    /\ lastReg = NoLastReg
    /\ gret = NoGRet

\* a whole RegisterAdapter call by the one goroutine
Seq_RegisterAdapter ==
    /\ cpc = "idle"
    /\ CanLock(adaptersMu) /\ WriterMayEnter(LockBegin(adaptersMu, 1), 1)
    /\ \E a \in Adapters \cup {Nil}, names \in NameLists :
         LET b == RegisterAdapterBody(adapters, a, names) IN
         /\ adapters' = b.m
         /\ lastReg' = IF b.panic = NoPanic
                       THEN [ok |-> TRUE, adapter |-> a, names |-> names]
                       ELSE NoLastReg
    /\ adaptersMu' = Unlock(LockBegin(adaptersMu, 1), 1)
    /\ gret' = NoGRet
    /\ UNCHANGED <<cfg, opts, cpc, cAdapter, cConn, calls, cret>>
    /\ UNCHANGED OutsideConnect

\* a whole GetAdapter call by the one goroutine
Seq_GetAdapter ==
    /\ cpc = "idle"
    /\ CanRLock(adaptersMu)
    /\ \E name \in Names :
         LET b == GetAdapterBody(adapters, name) IN
         gret' = [name |-> name, val |-> b.val, err |-> b.err, made |-> TRUE]
    /\ adaptersMu' = RUnlock(RLock(adaptersMu, 1), 1)
    /\ UNCHANGED <<adapters, cfg, opts, cpc, cAdapter, cConn, calls, cret, lastReg>>
    /\ UNCHANGED OutsideConnect

Connect_Call ==
    /\ cpc = "idle"
    /\ \E c \in Configs, os \in OptLists : cfg' = c /\ opts' = os
    /\ cpc' = "opts"
    /\ cAdapter' = Nil /\ cConn' = Nil /\ calls' = <<>> /\ cret' = NoCRet
    /\ UNCHANGED <<adapters, adaptersMu, lastReg, gret>>
    /\ UNCHANGED OutsideConnect

\* for _, opt := range opts { opt(cfg) }
Connect_ApplyOptions ==
    /\ cpc = "opts"
    /\ cfg' = ApplyOptions(cfg, opts, 1)
    /\ calls' = Append(calls, Call("ApplyOptions", "", NilErr))
    /\ cpc' = "validate"
    /\ UNCHANGED <<adapters, adaptersMu, opts, cAdapter, cConn, cret, lastReg, gret>>
    /\ UNCHANGED OutsideConnect

\* if err := cfg.Validate(); err != nil { return nil, NewConfigValidationError(err) }
Connect_Validate ==
    /\ cpc = "validate"
    /\ LET err == Validate(cfg) IN
         /\ calls' = Append(calls, Call("Validate", "", err))
         /\ IF err # NilErr
            THEN cret' = [conn |-> Nil, err |-> NewConfigValidationError(err),
                          panic |-> NoPanic]
                 /\ cpc' = "done"
            ELSE cret' = cret /\ cpc' = "resolve"
    /\ UNCHANGED <<adapters, adaptersMu, cfg, opts, cAdapter, cConn, lastReg, gret>>
    /\ UNCHANGED OutsideConnect

\* the adapter, either from injection or the registry
Connect_Resolve ==
    /\ cpc = "resolve"
    /\ IF cfg.Adapter # Nil
       THEN /\ calls' = Append(calls, Call("UseInjected", cfg.Adapter, NilErr))
            /\ adaptersMu' = adaptersMu
            /\ IF cfg.Adapter \in Adapters
               THEN cAdapter' = cfg.Adapter /\ cret' = cret /\ cpc' = "connect"
               ELSE cAdapter' = Nil
                    /\ cret' = [conn |-> Nil, err |-> NewInvalidAdapterError,
                                panic |-> NoPanic]
                    /\ cpc' = "done"
       ELSE /\ CanRLock(adaptersMu)
            /\ adaptersMu' = RUnlock(RLock(adaptersMu, 1), 1)
            /\ LET b == GetAdapterBody(adapters, cfg.Driver) IN
                 /\ calls' = Append(calls, Call("GetAdapter", cfg.Driver, b.err))
                 /\ cAdapter' = b.val
                 /\ IF b.err # NilErr
                    THEN cret' = [conn |-> Nil, err |-> NewAdapterLookupError(b.err),
                                  panic |-> NoPanic]
                         /\ cpc' = "done"
                    ELSE cret' = cret /\ cpc' = "connect"
    /\ UNCHANGED <<adapters, cfg, opts, cConn, lastReg, gret>>
    /\ UNCHANGED OutsideConnect

\* mutant: Connect returns the adapter's connection without the Ping
Connect_AdapterConnect_NoPing ==
    /\ cpc = "connect"
    /\ \E r \in AdapterConnectResults(cAdapter) :
         /\ calls' = Append(calls, Call("Adapter.Connect", cAdapter, r.err))
         /\ cConn' = r.conn
         /\ cret' = IF r.err # NilErr
                    THEN [conn |-> Nil, err |-> NewAdapterConnectError(r.err),
                          panic |-> NoPanic]
                    ELSE [conn |-> r.conn, err |-> NilErr, panic |-> NoPanic]
         /\ cpc' = "done"
    /\ UNCHANGED <<adapters, adaptersMu, cfg, opts, cAdapter, lastReg, gret>>
    /\ UNCHANGED OutsideConnect

\* conn, err := adapter.Connect(cfg)
Connect_AdapterConnect ==
    /\ cpc = "connect"
    /\ \E r \in AdapterConnectResults(cAdapter) :
         /\ calls' = Append(calls, Call("Adapter.Connect", cAdapter, r.err))
         /\ cConn' = r.conn
         /\ IF r.err # NilErr
            THEN cret' = [conn |-> Nil, err |-> NewAdapterConnectError(r.err),
                          panic |-> NoPanic]
                 /\ cpc' = "done"
            ELSE cret' = cret /\ cpc' = "ping"
    /\ UNCHANGED <<adapters, adaptersMu, cfg, opts, cAdapter, lastReg, gret>>
    /\ UNCHANGED OutsideConnect

\* if err := conn.Ping(ctx); err != nil {...}; return conn, nil
\* (a method call on a nil interface value panics)
Connect_Ping ==
    /\ cpc = "ping"
    /\ IF cConn = Nil
       THEN /\ cret' = [conn |-> Nil, err |-> NilErr,
                        panic |-> "invalid memory address or nil pointer dereference"]
            /\ calls' = calls
            /\ cpc' = "done"
       ELSE \E err \in {NilErr, ErrPing} :
            /\ calls' = Append(calls, Call("Ping", cConn, err))
            /\ IF err # NilErr
               THEN cret' = cret /\ cpc' = "close"
               ELSE cret' = [conn |-> cConn, err |-> NilErr, panic |-> NoPanic]
                    /\ cpc' = "done"
    /\ UNCHANGED <<adapters, adaptersMu, cfg, opts, cAdapter, cConn, lastReg, gret>>
    /\ UNCHANGED OutsideConnect

\* mutant: a failing Close replaces the ping error in what Connect returns
Connect_Close_ReturnsCloseError ==
    /\ cpc = "close"
    /\ \E err \in {NilErr, ErrClose} :
         /\ calls' = Append(calls, Call("Close", cConn, err))
         /\ cret' = [conn |-> Nil,
                     err |-> IF err # NilErr
                             THEN NewConnectionPingError(err)
                             ELSE NewConnectionPingError(calls[Len(calls)].err),
                     panic |-> NoPanic]
    /\ cpc' = "done"
    /\ UNCHANGED <<adapters, adaptersMu, cfg, opts, cAdapter, cConn, lastReg, gret>>
    /\ UNCHANGED OutsideConnect

\* _ = conn.Close(); return nil, NewConnectionPingError(err)
Connect_Close ==
    /\ cpc = "close"
    /\ \E err \in {NilErr, ErrClose} :
         calls' = Append(calls, Call("Close", cConn, err))
    /\ cret' = [conn |-> Nil, err |-> NewConnectionPingError(calls[Len(calls)].err),
                panic |-> NoPanic]
    /\ cpc' = "done"
    /\ UNCHANGED <<adapters, adaptersMu, cfg, opts, cAdapter, cConn, lastReg, gret>>
    /\ UNCHANGED OutsideConnect

\* the caller goes on after Connect has returned
Connect_Return ==
    /\ cpc = "done"
    /\ cpc' = "idle"
    /\ cfg' = [Driver |-> "", DSN |-> "", Adapter |-> Nil]
    /\ opts' = <<>>
    /\ cAdapter' = Nil /\ cConn' = Nil /\ calls' = <<>> /\ cret' = NoCRet
    /\ UNCHANGED <<adapters, adaptersMu, lastReg, gret>>
    /\ UNCHANGED OutsideConnect

NextConnect ==
    \/ Seq_RegisterAdapter \/ Seq_GetAdapter
    \/ Connect_Call \/ Connect_ApplyOptions \/ Connect_Validate \/ Connect_Resolve
    \/ Connect_AdapterConnect \/ Connect_Ping \/ Connect_Close \/ Connect_Return

(***************************************************************************)
(* Connect claims.                                                         *)
(***************************************************************************)
CallsNamed(n) == {i \in 1..Len(calls) : calls[i].call = n}

FailedPings == {i \in CallsNamed("Ping") : calls[i].err # NilErr}

\* C4: when Connect has returned after a failed Ping, Close was called on the
\* pinged connection exactly once, after the Ping; Connect returned no
\* connection and an error that wraps the ping error, whatever Close returned.
C4_PingFailureClosesOnce ==
    cpc = "done" =>
        \A i \in FailedPings :
            /\ calls[i].arg = cConn
            /\ Cardinality({j \in CallsNamed("Close") : calls[j].arg = calls[i].arg}) = 1
            /\ \A j \in CallsNamed("Close") : j > i
            /\ cret.conn = Nil /\ cret.panic = NoPanic
            /\ cret.err # NilErr /\ Wraps(cret.err, calls[i].err)

\* C4 witness: Connect has returned after a failed Ping whose Close failed too.
C4_Witness ==
    /\ cpc = "done" /\ FailedPings # {}
    /\ \E j \in CallsNamed("Close") : calls[j].err = ErrClose

\* C5: once Connect is past validation with an empty Driver or DSN, it has
\* returned no connection and a validation error, and has neither resolved an
\* adapter nor called Adapter.Connect, Ping or Close.
C5_InvalidConfigOpensNothing ==
    (cpc \notin {"idle", "opts", "validate"} /\ (cfg.Driver = "" \/ cfg.DSN = "")) =>
        /\ cpc = "done"
        /\ cret.conn = Nil /\ cret.panic = NoPanic
        /\ cret.err # NilErr
        /\ cret.err.Operation = "Connect" /\ cret.err.Message = "config validation failed"
        /\ Unwrap(cret.err) = IF cfg.Driver = ""
                              THEN ErrorsNew("database driver is required")
                              ELSE ErrorsNew("database dsn is required")
        /\ \A i \in 1..Len(calls) : calls[i].call \in {"ApplyOptions", "Validate"}
        /\ cAdapter = Nil /\ cConn = Nil

\* C5 witness: Connect has returned for a config whose DSN an option emptied,
\* with an adapter injected and registered.
C5_Witness ==
    /\ cpc = "done" /\ cfg.DSN = "" /\ cfg.Driver \in DOMAIN adapters
    /\ cfg.Adapter \in Adapters
    /\ Len(opts) > 0 /\ opts[Len(opts)].field = "DSN"

\* C6: a Connect that returned a nil error took exactly these steps, in this
\* order: options applied, config validated, adapter resolved (the injected
\* one if set, else the registry entry for Driver), Adapter.Connect called on
\* it, Ping called on the connection it returned; Close was not called and
\* that connection was returned.
C6_SuccessOrder ==
    (cpc = "done" /\ cret.err = NilErr /\ cret.panic = NoPanic) =>
        /\ Len(calls) = 5
        /\ calls[1].call = "ApplyOptions"
        /\ Len(opts) > 0 => cfg[opts[Len(opts)].field] = opts[Len(opts)].value
        /\ calls[2].call = "Validate" /\ cfg.Driver # "" /\ cfg.DSN # ""
        /\ IF cfg.Adapter # Nil
           THEN calls[3].call = "UseInjected" /\ calls[4].arg = cfg.Adapter
           ELSE /\ calls[3].call = "GetAdapter" /\ calls[3].arg = cfg.Driver
                /\ cfg.Driver \in DOMAIN adapters
                /\ calls[4].arg = adapters[cfg.Driver]
        /\ calls[4].call = "Adapter.Connect" /\ calls[4].arg \in Adapters
        /\ calls[5].call = "Ping" /\ calls[5].arg = cConn
        /\ cret.conn = cConn /\ cConn # Nil

\* C6 witness: a Connect through the registry has succeeded, with an option
\* applied; and so has one with an injected adapter.
C6_Witness ==
    /\ cpc = "done" /\ cret.err = NilErr /\ cret.panic = NoPanic
    /\ Len(opts) > 0
    /\ cfg.Adapter = Nil /\ cfg.Driver = "fam:b" /\ adapters[cfg.Driver] = "ad2"

\* C7: after a RegisterAdapter call that registered one adapter under its
\* names, GetAdapter of each of the names returns that adapter, and a Connect
\* with Driver one of the names and no injected adapter calls that adapter's
\* Connect (once).
C7_AliasesResolveToSameInstance ==
    lastReg.ok =>
        /\ (gret.made /\ gret.name \in Range(lastReg.names)) =>
               gret.val = lastReg.adapter /\ gret.err = NilErr
        /\ (cpc \in {"ping", "close", "done"} /\ cfg.Adapter = Nil /\ cfg.DSN # ""
                /\ cfg.Driver \in Range(lastReg.names)) =>
               /\ Cardinality(CallsNamed("Adapter.Connect")) = 1
               /\ \A i \in CallsNamed("Adapter.Connect") : calls[i].arg = lastReg.adapter

\* C7 witness: an adapter was registered under two different names in one
\* call, GetAdapter was made of the first and Connect of the second.
C7_Witness ==
    /\ lastReg.ok /\ Len(lastReg.names) = 2 /\ lastReg.names[1] # lastReg.names[2]
    /\ gret.made /\ gret.name = lastReg.names[1]
    /\ cpc = "done" /\ cfg.Adapter = Nil /\ cfg.Driver = lastReg.names[2]
    /\ CallsNamed("Adapter.Connect") # {}

(***************************************************************************)
(* The GORM repository and query builder (package gorm of the adapter).    *)
(*                                                                         *)
(* A *gorm.DB is a handle [clone, stmt]: stmt is the address of its        *)
(* Statement and clone says what a chain method does with it.  Every       *)
(* chain method of gorm (Model, Where, Or, Order, Limit, Offset, Unscoped, *)
(* Preload, ...) starts with getInstance: on a handle with clone = 1       *)
(* (gorm.Open, Session{NewDB: true}) it allocates an empty Statement, with *)
(* clone = 2 (Session, WithContext) a copy of the handle's Statement, and  *)
(* with clone = 0 (the handle a chain method returned) it returns the      *)
(* handle itself; the method then writes its clause into the Statement of  *)
(* the handle it got and returns that handle.                              *)
(***************************************************************************)
\* most Repository / QueryBuilder values the caller derives
MaxBuilders == 4

\* a Statement without clauses
EmptyStmt ==
    [model |-> Nil, clauses |-> <<>>, limit |-> {}, offset |-> {},
     unscoped |-> FALSE, preloads |-> {}]

\* connection.db: the handle gorm.Open returned
ConnDB == [clone |-> 1, stmt |-> 0]

StmtOf(h, hp) == IF h.stmt = 0 THEN EmptyStmt ELSE hp[h.stmt]

\* gorm.DB.getInstance
GetInstance(h, hp) ==
    IF h.clone = 0
    THEN [db |-> h, heap |-> hp]
    ELSE [db |-> [clone |-> 0, stmt |-> Len(hp) + 1],
          heap |-> Append(hp, IF h.clone = 1 THEN EmptyStmt ELSE StmtOf(h, hp))]

\* a chain method that sets one field of the Statement
ChainSet(h, hp, field, value) ==
    LET g == GetInstance(h, hp) IN
    [db |-> g.db, heap |-> [g.heap EXCEPT ![g.db.stmt][field] = value]]

\* a chain method that adds a clause (Where, Or, Order, Select, Joins, Group, Having)
ChainAdd(h, hp, kind, arg) ==
    LET g == GetInstance(h, hp) IN
    [db |-> g.db,
     heap |-> [g.heap EXCEPT ![g.db.stmt].clauses = Append(@, <<kind, arg>>)]]

\* gorm.DB.Preload
ChainPreload(h, hp, rel) ==
    LET g == GetInstance(h, hp) IN
    [db |-> g.db, heap |-> [g.heap EXCEPT ![g.db.stmt].preloads = @ \cup {rel}]]

\* gorm.DB.Session: a new handle on the same Statement
Session(h, newDB) == [clone |-> IF newDB THEN 1 ELSE 2, stmt |-> h.stmt]

(***************************************************************************)
(* Column names and directions are sequences of characters.                *)
(***************************************************************************)
Letters == {"a", "b", "c", "d", "e", "i", "s", "A", "C", "D", "E", "S", "_"}

Digits == {"0", "1"}

\* one dot-free part of validColumnNameRegex: [a-zA-Z_][a-zA-Z0-9_]*
IsIdentifier(cs) ==
    /\ Len(cs) > 0
    /\ cs[1] \in Letters
    /\ \A i \in 2..Len(cs) : cs[i] \in Letters \cup Digits

\* validateColumnName: ^ident(\.ident)*$
validateColumnName(column) ==
    LET dots == {i \in 1..Len(column) : column[i] = "."}
        cuts == {0} \cup dots \cup {Len(column) + 1}
    IN  \A a \in cuts :
            a <= Len(column) =>
                LET b == CHOOSE x \in cuts : x > a /\ \A y \in cuts : y > a => x <= y
                IN  IsIdentifier(SubSeq(column, a + 1, b - 1))

ToUpperChar(c) ==
    CASE c = "a" -> "A" [] c = "b" -> "B" [] c = "c" -> "C" [] c = "d" -> "D"
      [] c = "e" -> "E" [] c = "i" -> "I" [] c = "s" -> "S" [] OTHER -> c

RECURSIVE TrimSpace(_)
TrimSpace(cs) ==
    IF Len(cs) = 0 THEN cs
    ELSE IF cs[1] = " " THEN TrimSpace(Tail(cs))
    ELSE IF cs[Len(cs)] = " " THEN TrimSpace(SubSeq(cs, 1, Len(cs) - 1))
    ELSE cs

ToUpper(cs) == [i \in 1..Len(cs) |-> ToUpperChar(cs[i])]

ASC == <<"A", "S", "C">>

DESC == <<"D", "E", "S", "C">>

\* validateOrderDirection
validateOrderDirection(direction, defaultDirection) ==
    LET d == ToUpper(TrimSpace(direction)) IN
    IF d # ASC /\ d # DESC THEN defaultDirection ELSE d

\* validateAndApplyLimit
validateAndApplyLimit(h, hp, limit) ==
    IF limit < 0 THEN [db |-> h, heap |-> hp] ELSE ChainSet(h, hp, "limit", {limit})

\* gorm.DB.Offset: the Limit clause it adds is merged with the one the
\* Statement holds, and an offset of 0 gives way to a positive one held
ChainOffset(h, hp, offset) ==
    LET g == GetInstance(h, hp)
        held == g.heap[g.db.stmt].offset IN
    [db |-> g.db,
     heap |-> [g.heap EXCEPT ![g.db.stmt].offset =
                  IF offset = 0 /\ \E k \in held : k > 0 THEN held ELSE {offset}]]

\* validateAndApplyOffset
validateAndApplyOffset(h, hp, offset) ==
    IF offset < 0 THEN [db |-> h, heap |-> hp] ELSE ChainOffset(h, hp, offset)

\* an applyOrderBy that does not look at the column
applyOrderBy_AnyColumn(h, hp, column, direction) ==
    ChainAdd(h, hp, "order", <<column, validateOrderDirection(direction, ASC)>>)

\* applyOrderBy
applyOrderBy(h, hp, column, direction) ==
    IF ~validateColumnName(column) THEN [db |-> h, heap |-> hp]
    ELSE ChainAdd(h, hp, "order", <<column, validateOrderDirection(direction, ASC)>>)

\* handleRelationshipPreload: tx = tx.Preload(rel) for each relation, in every branch
RECURSIVE handleRelationshipPreload(_, _, _, _)
handleRelationshipPreload(h, hp, relations, i) ==
    IF i > Len(relations) THEN [db |-> h, heap |-> hp]
    ELSE LET r == ChainPreload(h, hp, relations[i]) IN
         handleRelationshipPreload(r.db, r.heap, relations, i + 1)

\* the inputs of the clause operations
Conditions == {"name = ?", "id > ?"}

Columns == {<<"i", "d">>, <<"a", ".", "b">>, <<"1", "d">>, <<"i", "d", ";">>}

Directions ==
    {<<"d", "e", "s", "c">>, <<" ", "A", "S", "C">>, <<"D", "E", "S", "C", " ">>,
     <<"s", "i", "d", "e">>}

Amounts == {-1, 0, 1}

RelationLists == {<<>>, <<"Profile">>}

NoOp == [op |-> "none"]

BuilderStart ==
    /\ heap = <<>>
    /\ slots = <<>>
    /\ made = <<>>
    /\ lastOp = NoOp

\* the clauses builder b carries: its Statement
View(b, hp) == StmtOf(b.db, hp)

\* the caller keeps the value a clause operation on slot i returned
Keep(kind, r, i, name, arg) ==
    /\ heap' = r.heap
    /\ slots' = Append(slots, [kind |-> kind, db |-> r.db])
    /\ made' = Append(made, StmtOf(r.db, r.heap))
    /\ lastOp' = [op |-> name, src |-> i, arg |-> arg, before |-> View(slots[i], heap)]
    /\ UNCHANGED OutsideBuilder

IsKind(i, kind) == i \in 1..Len(slots) /\ slots[i].kind = kind /\ Len(slots) < MaxBuilders

\* connection.NewRepository -> newGormRepository: database.Model(mdl)
NewRepository ==
    /\ Len(slots) < MaxBuilders
    /\ LET r == ChainSet(ConnDB, heap, "model", "mdl") IN
         /\ heap' = r.heap
         /\ slots' = Append(slots, [kind |-> "repo", db |-> r.db])
         /\ made' = Append(made, StmtOf(r.db, r.heap))
         /\ lastOp' = [op |-> "NewRepository", src |-> 0, arg |-> <<>>, before |-> EmptyStmt]
    /\ UNCHANGED OutsideBuilder

Repo_With(i) ==
    /\ IsKind(i, "repo")
    /\ \E relations \in RelationLists :
         Keep("repo", handleRelationshipPreload(slots[i].db, heap, relations, 1),
              i, "With", relations)

Repo_Where(i) ==
    /\ IsKind(i, "repo")
    /\ \E query \in Conditions :
         Keep("repo", ChainAdd(slots[i].db, heap, "where", query), i, "Where", <<query>>)

Repo_Unscoped(i) ==
    /\ IsKind(i, "repo")
    /\ Keep("repo", ChainSet(slots[i].db, heap, "unscoped", TRUE), i, "Unscoped", <<>>)

Repo_Limit(i) ==
    /\ IsKind(i, "repo")
    /\ \E limit \in Amounts :
         Keep("repo", validateAndApplyLimit(slots[i].db, heap, limit), i, "Limit", <<limit>>)

Repo_Offset(i) ==
    /\ IsKind(i, "repo")
    /\ \E offset \in Amounts :
         Keep("repo", validateAndApplyOffset(slots[i].db, heap, offset), i, "Offset", <<offset>>)

Repo_OrderBy(i) ==
    /\ IsKind(i, "repo")
    /\ \E column \in Columns, direction \in Directions :
         Keep("repo", applyOrderBy(slots[i].db, heap, column, direction),
              i, "OrderBy", <<column, direction>>)

\* repository.QueryBuilder -> newGormQueryBuilder: gormDB.Model(model) on r.db
Repo_QueryBuilder(i) ==
    /\ IsKind(i, "repo")
    /\ Keep("qb", ChainSet(slots[i].db, heap, "model", "mdl"), i, "QueryBuilder", <<>>)

\* Where and, alike, Select, WhereIn ... OrWhere, the joins, GroupBy, Having
QB_Where(i) ==
    /\ IsKind(i, "qb")
    /\ \E condition \in Conditions :
         Keep("qb", ChainAdd(slots[i].db, heap, "where", condition), i, "Where", <<condition>>)

QB_OrderBy(i) ==
    /\ IsKind(i, "qb")
    /\ \E column \in Columns, direction \in Directions :
         LET d == ToUpper(TrimSpace(direction)) IN
         Keep("qb", ChainAdd(slots[i].db, heap, "order",
                             <<column, IF d # ASC /\ d # DESC THEN ASC ELSE d>>),
              i, "OrderBy", <<column, direction>>)

QB_Limit(i) ==
    /\ IsKind(i, "qb")
    /\ \E limit \in Amounts :
         Keep("qb", IF limit < 0 THEN [db |-> slots[i].db, heap |-> heap]
                    ELSE ChainSet(slots[i].db, heap, "limit", {limit}),
              i, "Limit", <<limit>>)

QB_Offset(i) ==
    /\ IsKind(i, "qb")
    /\ \E offset \in Amounts :
         Keep("qb", IF offset < 0 THEN [db |-> slots[i].db, heap |-> heap]
                    ELSE ChainOffset(slots[i].db, heap, offset),
              i, "Offset", <<offset>>)

QB_With(i) ==
    /\ IsKind(i, "qb")
    /\ \E relations \in RelationLists :
         Keep("qb", handleRelationshipPreload(slots[i].db, heap, relations, 1),
              i, "With", relations)

QB_Unscoped(i) ==
    /\ IsKind(i, "qb")
    /\ Keep("qb", ChainSet(slots[i].db, heap, "unscoped", TRUE), i, "Unscoped", <<>>)

\* Clone: q.db.Session(&gorm.Session{})
QB_Clone(i) ==
    /\ IsKind(i, "qb")
    /\ Keep("qb", [db |-> Session(slots[i].db, FALSE), heap |-> heap], i, "Clone", <<>>)

\* Reset: newGormQueryBuilder(q.model, q.db.Session(&gorm.Session{NewDB: true}))
QB_Reset(i) ==
    /\ IsKind(i, "qb")
    /\ Keep("qb", ChainSet(Session(slots[i].db, TRUE), heap, "model", "mdl"),
            i, "Reset", <<>>)

NextBuilder ==
    \/ NewRepository
    \/ \E i \in 1..MaxBuilders :
        \/ Repo_With(i) \/ Repo_Where(i) \/ Repo_Unscoped(i) \/ Repo_Limit(i)
        \/ Repo_Offset(i) \/ Repo_OrderBy(i) \/ Repo_QueryBuilder(i)
        \/ QB_Where(i) \/ QB_OrderBy(i) \/ QB_Limit(i) \/ QB_Offset(i)
        \/ QB_With(i) \/ QB_Unscoped(i) \/ QB_Clone(i) \/ QB_Reset(i)

(***************************************************************************)
(* Builder claims.                                                         *)
(***************************************************************************)
\* C8 (as claimed): a clause operation leaves its receiver, and every other
\* builder the caller holds, with the clauses it had: each builder carries
\* the clauses it carried when it was returned, so a terminal operation on it
\* runs the query it would have run then.
C8_ReceiverUnchanged ==
    \A i \in 1..Len(slots) : View(slots[i], heap) = made[i]

(***************************************************************************)
(* Transactions of the GORM connection.                                    *)
(*                                                                         *)
(* connection.Transaction hands fn to gorm.DB.Transaction: on a handle    *)
(* that is not in a transaction it calls Begin and returns Begin's error   *)
(* without calling fn; it calls fn(tx); on nil it returns Commit's error,  *)
(* on an error it returns that error; a deferred function calls Rollback   *)
(* when fn panicked or the result is an error, and drops Rollback's        *)
(* result.  On a handle that is in a transaction it sets a savepoint       *)
(* (unless DisableNestedTransaction), calls fn and rolls back to the       *)
(* savepoint on an error or panic; nothing is committed there.             *)
(***************************************************************************)
\* most writes in a run
MaxWrites == 2

\* most Transaction calls in a run
MaxTx == 2

\* deepest nesting of Transaction calls
MaxDepth == 2

ErrBegin == Errorf(<<"begin failed">>)

ErrSavePoint == Errorf(<<"savepoint failed">>)

ErrCommit == Errorf(<<"commit failed">>)

ErrRollback == Errorf(<<"rollback failed">>)

ErrFn == Errorf(<<"fn failed">>)

ErrExec == Errorf(<<"exec failed">>)

\* gorm.ErrInvalidDB
ErrInvalidDB == Errorf(<<"invalid db">>)

\* fn panics instead of returning
FnPanic == [panic |-> "fn panicked"]

\* gorm.DB.DB() on the handle of a transaction: the *sql.DB the transaction
\* was begun on (the Config's pool, or the pool behind the *sql.Tx), or
\* ErrInvalidDB when the handle's pool resolves to no *sql.DB; never the
\* transaction itself, which is no *sql.DB
DBOnTx == {"pool", "invalid"}

TxConfigs == [dbOnTx : DBOnTx, DisableNestedTransaction : BOOLEAN]

NoTRet == [kind |-> "none"]

NoSRet == [called |-> FALSE]

\* the gorm of a default configuration whose DB() resolves a transaction to its pool
DefaultTxConfig == [dbOnTx |-> "pool", DisableNestedTransaction |-> FALSE]

TxStart ==
    /\ txCfg \in TxConfigs
    /\ persisted = {}
    /\ frames = <<>>
    /\ nextW = 1
    /\ txCount = 0
    /\ tret = NoTRet
    /\ sret = NoSRet

Top == frames[Len(frames)]

SetTop(f) == [frames EXCEPT ![Len(frames)] = f]

Pop == SubSeq(frames, 1, Len(frames) - 1)

\* mutant: a failing Rollback replaces the error of fn
TxResult_RollbackErrorWins(fnErr, commitErr, rbErr) ==
    IF fnErr = NilErr THEN commitErr
    ELSE IF rbErr # NilErr THEN rbErr ELSE fnErr

\* the error Transaction returns: `if err = fc(tx); err == nil { return tx.Commit().Error }`
TxResult(fnErr, commitErr, rbErr) ==
    IF fnErr = NilErr THEN commitErr ELSE fnErr

\* connection.Transaction on the connection Connect returned: Begin, then fn is called
Transaction_Begin ==
    /\ frames = <<>>
    /\ txCount < MaxTx
    /\ txCount' = txCount + 1
    /\ \E e \in {NilErr, ErrBegin} :
         IF e # NilErr
         THEN /\ tret' = [kind |-> "tx", began |-> FALSE, fnCalls |-> 0, fnRes |-> NilErr,
                          commitErr |-> NilErr, rbErr |-> NilErr, err |-> e,
                          calls |-> <<"Begin">>, wrote |-> {}, pending |-> {}]
              /\ UNCHANGED frames
         ELSE /\ frames' = <<[kind |-> "tx", calls |-> <<"Begin", "fn">>,
                              pending |-> {}, wrote |-> {}]>>
              /\ UNCHANGED tret
    /\ UNCHANGED <<txCfg, persisted, nextW, sret>>
    /\ UNCHANGED OutsideTx

\* connection.Transaction on the transaction-scoped connection, inside fn
Transaction_Nested ==
    /\ Len(frames) \in 1..(MaxDepth - 1)
    /\ txCount < MaxTx
    /\ txCount' = txCount + 1
    /\ IF txCfg.DisableNestedTransaction
       THEN /\ frames' = Append(frames, [kind |-> "shared", calls |-> <<"fn">>,
                                         pending |-> {}, wrote |-> {}])
            /\ UNCHANGED tret
       ELSE \E e \in {NilErr, ErrSavePoint} :
              IF e # NilErr
              THEN /\ tret' = [kind |-> "savepoint", began |-> FALSE, fnCalls |-> 0,
                               fnRes |-> NilErr, commitErr |-> NilErr, rbErr |-> NilErr,
                               err |-> e, calls |-> <<"SavePoint">>, wrote |-> {},
                               pending |-> {}]
                   /\ UNCHANGED frames
              ELSE /\ frames' = Append(frames, [kind |-> "savepoint",
                                                calls |-> <<"SavePoint", "fn">>,
                                                pending |-> {}, wrote |-> {}])
                   /\ UNCHANGED tret
    /\ UNCHANGED <<txCfg, persisted, nextW, sret>>
    /\ UNCHANGED OutsideTx

\* fn writes through a repository of the transaction-scoped connection:
\* NewRepository(model).Create(...), on the handle of the transaction
Fn_RepositoryCreate ==
    /\ frames # <<>>
    /\ nextW <= MaxWrites
    /\ \E e \in {NilErr, ErrExec} :
         IF e = NilErr
         THEN /\ frames' = SetTop([Top EXCEPT !.pending = @ \cup {nextW},
                                              !.wrote = @ \cup {nextW}])
              /\ nextW' = nextW + 1
         ELSE UNCHANGED <<frames, nextW>>
    /\ UNCHANGED <<txCfg, persisted, txCount, tret, sret>>
    /\ UNCHANGED OutsideTx

\* fn writes with Statement of the transaction-scoped connection:
\* sqlDB, err := c.db.DB(); on an error return it; sqlDB.ExecContext(...)
Fn_Statement ==
    /\ frames # <<>>
    /\ nextW <= MaxWrites
    /\ IF txCfg.dbOnTx = "invalid"
       THEN /\ sret' = [called |-> TRUE, err |-> ErrInvalidDB, inTx |-> TRUE]
            /\ UNCHANGED <<frames, nextW, persisted>>
       ELSE \E e \in {NilErr, ErrExec} :
              /\ sret' = [called |-> TRUE, err |-> e, inTx |-> TRUE]
              /\ IF e = NilErr
                 THEN /\ persisted' = persisted \cup {nextW}
                      /\ frames' = SetTop([Top EXCEPT !.wrote = @ \cup {nextW}])
                      /\ nextW' = nextW + 1
                 ELSE UNCHANGED <<frames, nextW, persisted>>
    /\ UNCHANGED <<txCfg, txCount, tret>>
    /\ UNCHANGED OutsideTx

\* fn of the outermost Transaction returns or panics: Commit or Rollback, and the result
Transaction_FnReturns ==
    /\ Len(frames) = 1
    /\ \E fnRes \in {NilErr, ErrFn, FnPanic}, commitErr \in {NilErr, ErrCommit},
          rbErr \in {NilErr, ErrRollback} :
         LET commits == fnRes = NilErr
             rollsBack == ~commits \/ commitErr # NilErr
         IN  /\ commits \/ commitErr = NilErr
             /\ rollsBack \/ rbErr = NilErr
             /\ persisted' = IF commits /\ commitErr = NilErr
                             THEN persisted \cup Top.pending ELSE persisted
             /\ tret' = [kind |-> "tx", began |-> TRUE, fnCalls |-> 1, fnRes |-> fnRes,
                         commitErr |-> commitErr, rbErr |-> rbErr,
                         err |-> IF fnRes = FnPanic THEN FnPanic
                                 ELSE TxResult(fnRes, commitErr, rbErr),
                         calls |-> Top.calls
                                     \o (IF commits THEN <<"Commit">> ELSE <<>>)
                                     \o (IF rollsBack THEN <<"Rollback">> ELSE <<>>),
                         wrote |-> Top.wrote, pending |-> Top.pending]
    /\ frames' = <<>>
    /\ UNCHANGED <<txCfg, nextW, txCount, sret>>
    /\ UNCHANGED OutsideTx

\* fn of a nested Transaction returns or panics: RollbackTo on an error, no Commit
Transaction_NestedFnReturns ==
    /\ Len(frames) > 1
    /\ \E fnRes \in {NilErr, ErrFn, FnPanic}, rbErr \in {NilErr, ErrRollback} :
         LET rollsBack == fnRes # NilErr /\ Top.kind = "savepoint"
             parent == frames[Len(frames) - 1]
         IN  /\ rollsBack \/ rbErr = NilErr
             /\ frames' = [Pop EXCEPT ![Len(frames) - 1] =
                              [parent EXCEPT !.pending =
                                  IF rollsBack THEN @ ELSE @ \cup Top.pending]]
             /\ tret' = [kind |-> Top.kind, began |-> TRUE, fnCalls |-> 1, fnRes |-> fnRes,
                         commitErr |-> NilErr, rbErr |-> rbErr,
                         err |-> IF fnRes = FnPanic THEN FnPanic
                                 ELSE TxResult(fnRes, NilErr, rbErr),
                         calls |-> Top.calls
                                     \o (IF rollsBack THEN <<"RollbackTo">> ELSE <<>>),
                         wrote |-> Top.wrote, pending |-> Top.pending]
    /\ UNCHANGED <<txCfg, persisted, nextW, txCount, sret>>
    /\ UNCHANGED OutsideTx

NextTx ==
    \/ Transaction_Begin
    \/ Transaction_Nested
    \/ Fn_RepositoryCreate
    \/ Fn_Statement
    \/ Transaction_FnReturns
    \/ Transaction_NestedFnReturns

(***************************************************************************)
(* Transaction claims.                                                     *)
(***************************************************************************)
Count(cs, name) == Cardinality({i \in 1..Len(cs) : cs[i] = name})

\* C9 (as claimed): the writes fn made through the transaction-scoped
\* connection, by repositories and by Statement alike, are one atomic unit:
\* none of them is durable once fn has returned an error, and all of them are
\* once fn has returned nil and the commit went through.
C9_WritesShareTheUnit ==
    (tret.kind = "tx" /\ tret.began) =>
        /\ tret.fnRes = ErrFn => tret.wrote \cap persisted = {}
        /\ (tret.fnRes = NilErr /\ tret.commitErr = NilErr) => tret.wrote \subseteq persisted

\* C10 (as claimed): every Transaction call invokes fn exactly once; when fn
\* returned nil the unit is committed and the call returns nil; when fn
\* returned an error the unit is rolled back, never committed, and the call
\* returns that error.
C10_FnOnceCommitOrRollback ==
    tret.kind # "none" =>
        /\ tret.fnCalls = 1
        /\ tret.fnRes = NilErr =>
              /\ Count(tret.calls, "Commit") = 1
              /\ tret.commitErr = NilErr
              /\ tret.pending \subseteq persisted
              /\ tret.err = NilErr
        /\ tret.fnRes = ErrFn =>
              /\ tret.pending \cap persisted = {}
              /\ Count(tret.calls, "Commit") = 0
              /\ tret.err = ErrFn

\* C10 (amended): a Transaction call on a connection that is not
\* transaction-scoped begins one unit; if Begin fails it returns Begin's
\* error and fn is never invoked; otherwise fn is invoked exactly once.  When
\* fn returned nil, Commit is attempted once and the call returns Commit's
\* result: nil and the unit durable when it succeeded, the commit error after
\* a Rollback when it failed.  When fn returned an error the unit is rolled
\* back, never committed, and the call returns that same error, also when the
\* Rollback failed.
C10_TransactionOutcome ==
    tret.kind = "tx" =>
        /\ ~tret.began =>
              /\ tret.fnCalls = 0
              /\ tret.calls = <<"Begin">>
              /\ tret.err = ErrBegin
        /\ tret.began => tret.fnCalls = 1 /\ Count(tret.calls, "fn") = 1
        /\ (tret.began /\ tret.fnRes = NilErr) =>
              /\ Count(tret.calls, "Commit") = 1
              /\ tret.err = tret.commitErr
              /\ tret.commitErr = NilErr =>
                    /\ tret.calls = <<"Begin", "fn", "Commit">>
                    /\ tret.pending \subseteq persisted
              /\ tret.commitErr # NilErr =>
                    /\ tret.calls = <<"Begin", "fn", "Commit", "Rollback">>
                    /\ tret.pending \cap persisted = {}
        /\ tret.fnRes = ErrFn =>
              /\ tret.calls = <<"Begin", "fn", "Rollback">>
              /\ tret.pending \cap persisted = {}
              /\ tret.err = ErrFn

\* fn wrote through a repository and failed, the Rollback failed too, and
\* Transaction returned the error of fn
C10_Witness ==
    /\ tret.kind = "tx"
    /\ tret.began
    /\ tret.fnRes = ErrFn
    /\ tret.rbErr = ErrRollback
    /\ tret.pending # {}
    /\ tret.err = ErrFn

(***************************************************************************)
(* The bridge: convertModelsToSlice (ToHomogeneous) and                    *)
(* convertSliceToModels (FromHomogeneous), with reflect as they use it.    *)
(*                                                                         *)
(* A contract.Model value is the nil interface, a nil pointer of a model   *)
(* type, or a pointer to a struct of a model type.  The model types        *)
(* implement contract.Model on their pointer: SetID has a pointer          *)
(* receiver, so a struct value of the type is no contract.Model.           *)
(***************************************************************************)
\* longest entity collection
MaxModels == 2

ModelTypes == {"TestModel", "AnotherTestModel"}

NilModel == [kind |-> "nil", type |-> "", id |-> 0, name |-> "", email |-> ""]

TypedNil(t) == [kind |-> "typednil", type |-> t, id |-> 0, name |-> "", email |-> ""]

Ptr(t, id, name) == [kind |-> "ptr", type |-> t, id |-> id, name |-> name, email |-> ""]

\* the struct a pointer points to
Content(e) == [id |-> e.id, name |-> e.name, email |-> e.email]

\* the entities given to the bridge and to the write operations
Entities ==
    {NilModel, TypedNil("TestModel"), Ptr("AnotherTestModel", 1, "a")}
        \cup {Ptr("TestModel", id, n) : id \in 0..2, n \in {"a", "b"}}

EntityLists == UNION {[1..n -> Entities] : n \in 0..MaxModels}

\* reflect.TypeOf(TestModel{}) and reflect.TypeOf(&TestModel{})
ReflectTypes == [name : ModelTypes, ptr : BOOLEAN]

ReflectPanic == "reflect: call of reflect.Value.Type on zero Value"

\* convertModelsToSlice: the loop over the models, from element i (1-based; the
\* message carries the index of Go, i - 1)
RECURSIVE ConvertLoop(_, _, _)
ConvertLoop(models, t, i) ==
    IF i > Len(models)
    THEN [slice |-> [elem |-> [name |-> t, ptr |-> FALSE],
                     items |-> [k \in 1..Len(models) |-> Content(models[k])]],
          err |-> NilErr, panic |-> NoPanic]
    ELSE IF models[i].kind = "nil"
    THEN [slice |-> Nil, panic |-> NoPanic,
          err |-> Errorf(<<"model at index ", ToString(i - 1), " cannot be nil">>)]
    ELSE IF models[i].kind = "typednil"
    THEN [slice |-> Nil, err |-> NilErr, panic |-> ReflectPanic]
    ELSE IF models[i].type # t
    THEN [slice |-> Nil, panic |-> NoPanic,
          err |-> Errorf(<<"model at index ", ToString(i - 1),
                           " is not assignable to expected type ", t>>)]
    ELSE ConvertLoop(models, t, i + 1)

\* convertModelsToSlice / utils.ConvertModelsToSlice
convertModelsToSlice(models, modelType) ==
    IF Len(models) = 0
    THEN [slice |-> Nil, err |-> Errorf(<<"models slice cannot be empty">>), panic |-> NoPanic]
    ELSE ConvertLoop(models, modelType.name, 1)

\* item.(contract.Model): a pointer to a model type is one, a struct value is none
IsModel(elem) == elem.ptr /\ elem.name \in ModelTypes

\* convertSliceToModels / utils.ConvertSliceToModels
convertSliceToModels(sliceValue) ==
    IF Len(sliceValue.items) > 0 /\ ~IsModel(sliceValue.elem)
    THEN [models |-> Nil,
          err |-> Errorf(<<"failed to assert item at index ", "0",
                           " to contract.Model, got type ", sliceValue.elem.name>>)]
    ELSE [models |-> [k \in 1..Len(sliceValue.items) |->
                        [kind |-> "ptr", type |-> sliceValue.elem.name,
                         id |-> sliceValue.items[k].id, name |-> sliceValue.items[k].name,
                         email |-> sliceValue.items[k].email]],
          err |-> NilErr]

\* createSliceOfModelType, filled by the query: a []*T of the rows read
SliceOfPointers(t, items) == [elem |-> [name |-> t, ptr |-> TRUE], items |-> items]

BridgeStart ==
    \E models \in EntityLists, modelType \in ReflectTypes :
        bridge = [step |-> "args", models |-> models, modelType |-> modelType]

\* ToHomogeneous(entities, elementType)
ToHomogeneous ==
    /\ bridge.step = "args"
    /\ bridge' = [step |-> "to", models |-> bridge.models, modelType |-> bridge.modelType,
                  to |-> convertModelsToSlice(bridge.models, bridge.modelType)]
    /\ UNCHANGED OutsideBridge

\* FromHomogeneous applied to what ToHomogeneous returned
FromHomogeneous ==
    /\ bridge.step = "to"
    /\ bridge.to.err = NilErr /\ bridge.to.panic = NoPanic
    /\ bridge' = [step |-> "from", models |-> bridge.models, modelType |-> bridge.modelType,
                  to |-> bridge.to, from |-> convertSliceToModels(bridge.to.slice)]
    /\ UNCHANGED OutsideBridge

\* executeQueryAndConvertToModels: convertSliceToModels applied to the []*T a query filled
FromQuery ==
    /\ bridge.step = "to"
    /\ bridge.to.err = NilErr /\ bridge.to.panic = NoPanic
    /\ bridge' = [step |-> "query", models |-> bridge.models, modelType |-> bridge.modelType,
                  to |-> bridge.to,
                  from |-> convertSliceToModels(
                              SliceOfPointers(bridge.modelType.name, bridge.to.slice.items))]
    /\ UNCHANGED OutsideBridge

NextBridge == ToHomogeneous \/ FromHomogeneous \/ FromQuery

(***************************************************************************)
(* Bridge claims.                                                          *)
(***************************************************************************)
IsNilEntity(e) == e.kind \in {"nil", "typednil"}

\* the elements at which ToHomogeneous has to fail
Offenders(models, modelType) ==
    {k \in 1..Len(models) : IsNilEntity(models[k]) \/ models[k].type # modelType.name}

\* C19 (as claimed): ToHomogeneous returns an error if and only if the
\* collection is empty or holds a nil or a non-assignable element; an error
\* caused by an element names the smallest index of such an element; on
\* success the result has the length of the collection and element i is
\* taken from entities[i].
C19_ToHomogeneousFailsIff ==
    bridge.step = "to" =>
        LET bad == Offenders(bridge.models, bridge.modelType)
            r == bridge.to
        IN  /\ r.panic = NoPanic
            /\ r.err # NilErr <=> (Len(bridge.models) = 0 \/ bad # {})
            /\ bad # {} =>
                  LET k == CHOOSE x \in bad : \A y \in bad : x <= y
                  IN  /\ r.err # NilErr
                      /\ MsgContains(r.err, ToString(k - 1))
                      /\ MsgContains(r.err, "model at index ")
            /\ (Len(bridge.models) > 0 /\ bad = {}) =>
                  /\ Len(r.slice.items) = Len(bridge.models)
                  /\ \A i \in 1..Len(bridge.models) :
                        r.slice.items[i] = Content(bridge.models[i])

\* C20 (as claimed): for a non-empty collection E of entities of one type T,
\* FromHomogeneous of ToHomogeneous(E, T) succeeds and gives a collection of
\* the same length whose element i has the content of E[i].
C20_RoundTrip ==
    (bridge.step = "from" /\ Offenders(bridge.models, bridge.modelType) = {}) =>
        /\ bridge.from.err = NilErr
        /\ Len(bridge.from.models) = Len(bridge.models)
        /\ \A i \in 1..Len(bridge.models) : bridge.from.models[i] = bridge.models[i]

(***************************************************************************)
(* The rows behind the GORM repositories, and the terminal operations.     *)
(***************************************************************************)
\* what a terminal operation last returned, and what it asked of the backend
NoRRet == [op |-> "none"]

RepoStart ==
    /\ table = EmptyMap
    /\ rret = NoRRet

MaxRows == 2

MaxRepos == 2

GormErrRecordNotFound == [msg |-> <<"record not found">>, pkg |-> "gorm"]

DbErrRecordNotFound == [msg |-> <<"record not found">>, pkg |-> "db"]

ErrMissingWhereClause == [msg |-> <<"WHERE conditions required">>, pkg |-> "gorm"]

ErrBackend == [msg |-> <<"backend failure">>, pkg |-> "driver"]

\* the entities callers hand to the write operations
WriteEntities ==
    {NilModel, Ptr("TestModel", 0, "a")} \cup {Ptr("TestModel", id, "b") : id \in 1..MaxRows}

WriteLists == UNION {[1..n -> WriteEntities] : n \in 0..MaxModels}

BatchSizes == {-1, 0, 1, 2}

IsRepo(i) == i \in 1..Len(slots) /\ slots[i].kind = "repo"

\* the handle r.db.WithContext(ctx) runs on carries the Statement of r.db
Scope(i) == View(slots[i], heap).unscoped

\* the rows a statement sees: soft-deleted rows only when Unscoped
Visible(t, unscoped) == {id \in DOMAIN t : unscoped \/ ~t[id].deleted}

Lowest(S) == CHOOSE x \in S : \A y \in S : x <= y

NextID(t) == IF DOMAIN t = {} THEN 1 ELSE (CHOOSE x \in DOMAIN t : \A y \in DOMAIN t : y <= x) + 1

RowOf(item) == [name |-> item.name, email |-> item.email, deleted |-> FALSE]

ModelOf(t, id) ==
    [kind |-> "ptr", type |-> "TestModel", id |-> id, name |-> t[id].name,
     email |-> t[id].email]

\* one INSERT statement of the rows items[k..]: all of them or none
RECURSIVE InsertAll(_, _, _)
InsertAll(t, items, k) ==
    IF k > Len(items) THEN [table |-> t, err |-> NilErr, ids |-> <<>>]
    ELSE LET id == IF items[k].id = 0 THEN NextID(t) ELSE items[k].id IN
         IF id \in DOMAIN t
         THEN [table |-> t, err |-> ErrorsNew("UNIQUE constraint failed"), ids |-> <<>>]
         ELSE LET r == InsertAll((id :> RowOf(items[k])) @@ t, items, k + 1) IN
              [r EXCEPT !.ids = <<id>> \o @]

Insert(t, items, fail) ==
    LET r == InsertAll(t, items, 1) IN
    IF fail THEN [table |-> t, err |-> ErrBackend, ids |-> <<>>]
    ELSE IF r.err # NilErr THEN [r EXCEPT !.table = t]
    ELSE r

\* the backend has room for the rows (a bound of the model, not of the code)
Fits(t) == \A id \in DOMAIN t : id <= MaxRows

\* the outcome of an operation: its error, the backend and bridge calls it
\* made, the table it leaves and the entities it returns
Out(err, cs, t, result) == [err |-> err, calls |-> cs, table |-> t, result |-> result]

Asked(name, n) == [call |-> name, n |-> n]

optimizeCreateOperation(models) ==
    IF Len(models) = 0 THEN [single |-> FALSE, model |-> NilModel, err |-> NilErr]
    ELSE IF Len(models) = 1
    THEN IF models[1].kind = "nil"
         THEN [single |-> FALSE, model |-> NilModel, err |-> ErrorsNew("model cannot be nil")]
         ELSE [single |-> TRUE, model |-> models[1], err |-> NilErr]
    ELSE [single |-> FALSE, model |-> NilModel, err |-> NilErr]

\* fmt.Errorf(prefix + ": %w", err)
Wrapf(prefix, err) == [msg |-> <<prefix>> \o err.msg, Err |-> err]

RepoModelType == [name |-> "TestModel", ptr |-> FALSE]

Create(t, models, fail) ==
    LET o == optimizeCreateOperation(models)
        c == convertModelsToSlice(models, RepoModelType) IN
    IF o.err # NilErr THEN Out(o.err, <<>>, t, <<>>)
    ELSE IF Len(models) = 0 THEN Out(NilErr, <<>>, t, <<>>)
    ELSE IF o.single
    THEN LET r == Insert(t, <<Content(o.model)>>, fail) IN
         Out(r.err, <<Asked("Create", 1)>>, r.table, <<>>)
    ELSE IF c.err # NilErr
    THEN Out(Wrapf("failed to convert models: ", c.err), <<Asked("ToHomogeneous", Len(models))>>,
             t, <<>>)
    ELSE LET r == Insert(t, c.slice.items, fail) IN
         Out(r.err, <<Asked("ToHomogeneous", Len(models)), Asked("Create", Len(models))>>,
             r.table, <<>>)

\* gorm.DB.CreateInBatches: one INSERT per chunk of batchSize rows; failAt
\* is the chunk whose INSERT the backend refuses (0: none), and a refused
\* chunk rolls the earlier chunks back
RECURSIVE Chunks(_, _, _, _, _)
Chunks(t, items, batchSize, failAt, k) ==
    IF (k - 1) * batchSize >= Len(items) THEN Out(NilErr, <<>>, t, <<>>)
    ELSE LET from == (k - 1) * batchSize + 1
             to == IF k * batchSize > Len(items) THEN Len(items) ELSE k * batchSize
             r == Insert(t, SubSeq(items, from, to), failAt = k)
             rest == Chunks(r.table, items, batchSize, failAt, k + 1) IN
         IF r.err # NilErr THEN Out(r.err, <<Asked("Create", to - from + 1)>>, t, <<>>)
         ELSE [rest EXCEPT !.calls = <<Asked("Create", to - from + 1)>> \o @]

CreateInBatches(t, models, batchSize, failAt) ==
    LET c == convertModelsToSlice(models, RepoModelType)
        r == Chunks(t, c.slice.items, batchSize, failAt, 1) IN
    IF Len(models) = 0 THEN Out(NilErr, <<>>, t, <<>>)
    ELSE IF batchSize <= 0 THEN Out(ErrorsNew("batch size must be positive"), <<>>, t, <<>>)
    ELSE IF c.err # NilErr
    THEN Out(Wrapf("failed to convert models: ", c.err), <<Asked("ToHomogeneous", Len(models))>>,
             t, <<>>)
    ELSE IF r.err # NilErr
    THEN Out(r.err, <<Asked("ToHomogeneous", Len(models))>> \o r.calls, t, <<>>)
    ELSE Out(NilErr, <<Asked("ToHomogeneous", Len(models))>> \o r.calls, r.table, <<>>)

\* gorm.DB.Updates(struct): the non-zero fields of the struct
Patch(row, fields) ==
    [row EXCEPT !.name = IF fields.name = "" THEN @ ELSE fields.name,
                !.email = IF fields.email = "" THEN @ ELSE fields.email]

\* an Update that goes on with the entities after the one the backend refused
RECURSIVE Update_KeepsGoing(_, _, _, _, _)
Update_KeepsGoing(t, unscoped, models, failAt, k) ==
    IF k > Len(models)
    THEN Out(IF failAt \in 1..Len(models) THEN ErrBackend ELSE NilErr, <<>>, t, <<>>)
    ELSE IF models[k].kind = "nil"
    THEN Out(ErrorsNew("model cannot be nil"), <<>>, t, <<>>)
    ELSE LET id == models[k].id
             t2 == IF failAt # k /\ id \in Visible(t, unscoped)
                   THEN [t EXCEPT ![id] = Patch(@, models[k])] ELSE t
             rest == Update_KeepsGoing(t2, unscoped, models, failAt, k + 1) IN
         [rest EXCEPT !.calls = <<Asked("Update", id)>> \o @]

\* the loop of Update from entity k on; failAt is the entity whose UPDATE the
\* backend refuses (0: none)
RECURSIVE Update(_, _, _, _, _)
Update(t, unscoped, models, failAt, k) ==
    IF k > Len(models) THEN Out(NilErr, <<>>, t, <<>>)
    ELSE IF models[k].kind = "nil"
    THEN Out(ErrorsNew("model cannot be nil"), <<>>, t, <<>>)
    ELSE IF failAt = k THEN Out(ErrBackend, <<Asked("Update", models[k].id)>>, t, <<>>)
    ELSE LET id == models[k].id
             t2 == IF id \in Visible(t, unscoped)
                   THEN [t EXCEPT ![id] = Patch(@, models[k])] ELSE t
             rest == Update(t2, unscoped, models, failAt, k + 1) IN
         [rest EXCEPT !.calls = <<Asked("Update", id)>> \o @]

\* gorm.DB.Delete of the rows whose keys are ids: a soft delete stamps
\* deleted_at on the rows still visible, an Unscoped one removes the rows
DeleteRows(t, unscoped, ids, fail) ==
    IF ids = {} THEN [table |-> t, err |-> ErrMissingWhereClause]
    ELSE IF fail THEN [table |-> t, err |-> ErrBackend]
    ELSE IF unscoped
    THEN [table |-> [id \in DOMAIN t \ ids |-> t[id]], err |-> NilErr]
    ELSE [table |-> [id \in DOMAIN t |->
                       IF id \in ids THEN [t[id] EXCEPT !.deleted = TRUE] ELSE t[id]],
          err |-> NilErr]

KeysOf(items) == {items[k].id : k \in 1..Len(items)} \ {0}

\* Delete without its test for the empty list
Delete_NoEmptyCheck(t, unscoped, models, force, fail) ==
    LET c == convertModelsToSlice(models, RepoModelType)
        r == DeleteRows(t, unscoped \/ force, KeysOf(models), fail) IN
    IF Len(models) = 1 /\ models[1].kind = "nil"
    THEN Out(ErrorsNew("model cannot be nil"), <<>>, t, <<>>)
    ELSE IF Len(models) = 1 THEN Out(r.err, <<Asked("Delete", 1)>>, r.table, <<>>)
    ELSE IF c.err # NilErr
    THEN Out(Wrapf("failed to convert models: ", c.err), <<Asked("ToHomogeneous", Len(models))>>,
             t, <<>>)
    ELSE Out(r.err, <<Asked("ToHomogeneous", Len(models)), Asked("Delete", Len(models))>>,
             r.table, <<>>)

\* Delete (force = FALSE) and ForceDelete (force = TRUE)
Delete(t, unscoped, models, force, fail) ==
    LET c == convertModelsToSlice(models, RepoModelType)
        name == IF force THEN "ForceDelete" ELSE "Delete" IN
    IF Len(models) = 0 THEN Out(NilErr, <<>>, t, <<>>)
    ELSE IF Len(models) = 1
    THEN IF models[1].kind = "nil"
         THEN Out(ErrorsNew("model cannot be nil"), <<>>, t, <<>>)
         ELSE LET r == DeleteRows(t, unscoped \/ force, KeysOf(models), fail) IN
              Out(r.err, <<Asked(name, 1)>>, r.table, <<>>)
    ELSE IF c.err # NilErr
    THEN Out(Wrapf("failed to convert models: ", c.err), <<Asked("ToHomogeneous", Len(models))>>,
             t, <<>>)
    ELSE LET r == DeleteRows(t, unscoped \/ force, KeysOf(c.slice.items), fail) IN
         Out(r.err, <<Asked("ToHomogeneous", Len(models)), Asked(name, Len(models))>>,
             r.table, <<>>)

\* gorm.DB.First(entity, id) and gorm.DB.First(entity): the visible row of
\* lowest key, of key id when id is given (id = 0 stands for no key)
GormFirst(t, unscoped, id, fail) ==
    LET rows == {k \in Visible(t, unscoped) : id = 0 \/ k = id} IN
    IF fail THEN [model |-> Ptr("TestModel", 0, ""), err |-> ErrBackend]
    ELSE IF rows = {} THEN [model |-> Ptr("TestModel", 0, ""), err |-> GormErrRecordNotFound]
    ELSE [model |-> ModelOf(t, Lowest(rows)), err |-> NilErr]

\* Find (with an id) and First (id = 0)
Find(t, unscoped, id, fail) ==
    LET r == GormFirst(t, unscoped, id, fail) IN
    IF r.err = GormErrRecordNotFound THEN [model |-> NilModel, err |-> NilErr]
    ELSE [model |-> r.model, err |-> r.err]

\* a handleFindOrFailError that hands on what it was given
handleFindOrFailError_HandsOn(model, err) == [model |-> model, err |-> err]

handleFindOrFailError(model, err) ==
    IF err # NilErr THEN [model |-> NilModel, err |-> err]
    ELSE IF model.kind = "nil" THEN [model |-> NilModel, err |-> DbErrRecordNotFound]
    ELSE [model |-> model, err |-> NilErr]

RECURSIVE Ascending(_)
Ascending(S) ==
    IF S = {} THEN <<>> ELSE <<Lowest(S)>> \o Ascending(S \ {Lowest(S)})

executeQueryAndConvertToModels(t, unscoped, fail) ==
    LET ids == Ascending(Visible(t, unscoped))
        c == convertSliceToModels(SliceOfPointers("TestModel",
                 [k \in 1..Len(ids) |-> Content(ModelOf(t, ids[k]))])) IN
    IF fail THEN [models |-> <<>>, err |-> ErrBackend]
    ELSE [models |-> c.models, err |-> c.err]

\* an entity of the repository's model with all its fields given
Entity(id, name, email) == [Ptr("TestModel", id, name) EXCEPT !.email = email]

NoFields == [id |-> 0, name |-> "", email |-> ""]

\* the conditions, the entities to create and the patches callers hand to
\* the upsert operations
UpsertConditions == {Entity(0, "a", ""), Entity(0, "", "x")}

UpsertCreates ==
    {<<>>, <<Entity(MaxRows, "b", "y")>>}
      \cup {<<Entity(0, n, e)>> : n \in {"a", "b"}, e \in {"x", "y"}}

UpsertValues == {[NoFields EXCEPT !.name = "b"], [NoFields EXCEPT !.email = "y"],
                 [NoFields EXCEPT !.email = "x"]}

\* the non-zero fields of b laid over a
Overlay(a, b) ==
    [a EXCEPT !.id = IF b.id = 0 THEN @ ELSE b.id,
              !.name = IF b.name = "" THEN @ ELSE b.name,
              !.email = IF b.email = "" THEN @ ELSE b.email]

\* Where(struct): equality on the non-zero fields of the struct
Agrees(k, row, cond) ==
    /\ cond.id = 0 \/ cond.id = k
    /\ cond.name = "" \/ cond.name = row.name
    /\ cond.email = "" \/ cond.email = row.email

\* gorm.DB.Where(cond).Assign(assigns).FirstOrCreate(dest): the row of lowest
\* key that agrees with cond and with the key of dest is read into dest,
\* and updated with assigns; when there is none, dest takes the fields of
\* cond, then those of assigns, and is inserted
GormFirstOrCreate(t, unscoped, cond, dest, assigns, fail) ==
    LET found == {k \in Visible(t, unscoped) :
                     Agrees(k, t[k], cond) /\ (dest.id = 0 \/ dest.id = k)}
        k == Lowest(found)
        t2 == IF assigns = NoFields THEN t ELSE [t EXCEPT ![k] = Patch(@, assigns)]
        d == Overlay(Overlay(dest, cond), assigns)
        r == Insert(t, <<d>>, FALSE) IN
    IF fail THEN Out(ErrBackend, <<Asked("FirstOrCreate", 1)>>, t, <<dest>>)
    ELSE IF found # {}
    THEN Out(NilErr, <<Asked("FirstOrCreate", 1)>>, t2, <<Content(ModelOf(t2, k))>>)
    ELSE Out(r.err, <<Asked("FirstOrCreate", 1)>>, r.table,
             <<IF r.err = NilErr THEN [d EXCEPT !.id = r.ids[1]] ELSE d>>)

\* a FirstOrCreate that always creates from the condition
FirstOrCreate_FromCondition(t, unscoped, condition, create, fail) ==
    GormFirstOrCreate(t, unscoped, Content(condition), Content(condition), NoFields, fail)

FirstOrCreate(t, unscoped, condition, create, fail) ==
    LET toCreate == IF Len(create) > 0 THEN create[1] ELSE condition IN
    GormFirstOrCreate(t, unscoped, Content(condition), Content(toCreate), NoFields, fail)

\* an UpdateOrCreate that leaves the values out
UpdateOrCreate_NoAssign(t, unscoped, condition, values, fail) ==
    GormFirstOrCreate(t, unscoped, Content(condition), Content(condition), NoFields, fail)

UpdateOrCreate(t, unscoped, condition, values, fail) ==
    GormFirstOrCreate(t, unscoped, Content(condition), Content(condition), values, fail)

\* gormQueryBuilder.Count: q.db.WithContext(ctx).Count(&count); count stays 0
\* when the backend fails
gormQueryBuilder_Count(t, unscoped, fail) ==
    IF fail THEN [count |-> 0, err |-> ErrBackend]
    ELSE [count |-> Cardinality(Visible(t, unscoped)), err |-> NilErr]

\* an Exists that keeps the error of Count to itself
Exists_DropsError(t, unscoped, fail) ==
    Out(NilErr, <<Asked("Count", 0)>>, t, <<gormQueryBuilder_Count(t, unscoped, fail).count > 0>>)

\* gormQueryBuilder.Exists
Exists(t, unscoped, fail) ==
    LET c == gormQueryBuilder_Count(t, unscoped, fail) IN
    Out(c.err, <<Asked("Count", 0)>>, t, <<c.count > 0>>)

\* the caller keeps what the operation returned
Returns(name, i, args, out) ==
    /\ rret = NoRRet
    /\ Fits(out.table)
    /\ table' = out.table
    /\ rret' = [op |-> name, slot |-> i, args |-> args, err |-> out.err, calls |-> out.calls,
                result |-> out.result, before |-> table, unscoped |-> Scope(i),
                built |-> made[i].unscoped]
    /\ UNCHANGED OutsideRepo

Repo_Create(i) ==
    /\ IsRepo(i)
    /\ \E models \in WriteLists, fail \in BOOLEAN :
         Returns("Create", i, [models |-> models], Create(table, models, fail))

Repo_CreateInBatches(i) ==
    /\ IsRepo(i)
    /\ \E models \in WriteLists, batchSize \in BatchSizes, failAt \in 0..MaxModels :
         Returns("CreateInBatches", i,
                 [models |-> models, batchSize |-> batchSize, failAt |-> failAt],
                 CreateInBatches(table, models, batchSize, failAt))

Repo_Update(i) ==
    /\ IsRepo(i)
    /\ \E models \in WriteLists, failAt \in 0..MaxModels :
         Returns("Update", i, [models |-> models, failAt |-> failAt],
                 Update(table, Scope(i), models, failAt, 1))

Repo_Delete(i) ==
    /\ IsRepo(i)
    /\ \E models \in WriteLists, fail \in BOOLEAN :
         Returns("Delete", i, [models |-> models], Delete(table, Scope(i), models, FALSE, fail))

Repo_ForceDelete(i) ==
    /\ IsRepo(i)
    /\ \E models \in WriteLists, fail \in BOOLEAN :
         Returns("ForceDelete", i, [models |-> models],
                 Delete(table, Scope(i), models, TRUE, fail))

\* FindOrFail runs Find and handleFindOrFailError; both results are kept
Repo_FindOrFail(i) ==
    /\ IsRepo(i)
    /\ \E id \in 1..MaxRows, fail \in BOOLEAN :
         LET f == Find(table, Scope(i), id, fail)
             g == handleFindOrFailError(f.model, f.err) IN
         Returns("Find", i, [id |-> id, fail |-> fail],
                 Out(f.err, <<Asked("First", id)>>, table, <<f, g>>))

Repo_FirstOrFail(i) ==
    /\ IsRepo(i)
    /\ \E fail \in BOOLEAN :
         LET f == Find(table, Scope(i), 0, fail)
             g == handleFindOrFailError(f.model, f.err) IN
         Returns("First", i, [id |-> 0, fail |-> fail],
                 Out(f.err, <<Asked("First", 0)>>, table, <<f, g>>))

Repo_Get(i) ==
    /\ IsRepo(i)
    /\ \E fail \in BOOLEAN :
         LET r == executeQueryAndConvertToModels(table, Scope(i), fail) IN
         Returns("Get", i, [fail |-> fail], Out(r.err, <<Asked("Find", 0)>>, table, r.models))

Repo_FirstOrCreate(i) ==
    /\ IsRepo(i)
    /\ \E condition \in UpsertConditions, create \in UpsertCreates, fail \in BOOLEAN :
         Returns("FirstOrCreate", i, [condition |-> condition, create |-> create, fail |-> fail],
                 FirstOrCreate(table, Scope(i), condition, create, fail))

Repo_UpdateOrCreate(i) ==
    /\ IsRepo(i)
    /\ \E condition \in UpsertConditions, values \in UpsertValues, fail \in BOOLEAN :
         Returns("UpdateOrCreate", i, [condition |-> condition, values |-> values, fail |-> fail],
                 UpdateOrCreate(table, Scope(i), condition, values, fail))

QB_Exists(i) ==
    /\ i \in 1..Len(slots) /\ slots[i].kind = "qb"
    /\ \E fail \in BOOLEAN :
         Returns("Exists", i, [fail |-> fail], Exists(table, Scope(i), fail))

\* the repositories of the scenario: built from the connection, or derived
\* from one another by Unscoped
Repo_New == rret = NoRRet /\ Len(slots) < MaxRepos /\ NewRepository

Repo_Derive ==
    rret = NoRRet /\ Len(slots) < MaxRepos /\ \E i \in 1..Len(slots) : Repo_Unscoped(i)

\* a query builder of one of the repositories
Repo_Query ==
    rret = NoRRet /\ Len(slots) < MaxRepos /\ \E i \in 1..Len(slots) : Repo_QueryBuilder(i)

\* the caller has looked at what the operation returned and goes on
Caller_Continues ==
    /\ rret # NoRRet
    /\ rret' = NoRRet
    /\ UNCHANGED <<table, OutsideRepo>>

NextRepo ==
    \/ Repo_New
    \/ Repo_Derive
    \/ \E i \in 1..MaxRepos : Repo_Create(i)
    \/ \E i \in 1..MaxRepos : Repo_CreateInBatches(i)
    \/ \E i \in 1..MaxRepos : Repo_Update(i)
    \/ \E i \in 1..MaxRepos : Repo_Delete(i)
    \/ \E i \in 1..MaxRepos : Repo_ForceDelete(i)
    \/ \E i \in 1..MaxRepos : Repo_FindOrFail(i)
    \/ \E i \in 1..MaxRepos : Repo_FirstOrFail(i)
    \/ \E i \in 1..MaxRepos : Repo_Get(i)
    \/ Repo_Query
    \/ \E i \in 1..MaxRepos : QB_Exists(i)
    \/ Caller_Continues

NextUpsert ==
    \/ Repo_New
    \/ \E i \in 1..MaxRepos : Repo_FirstOrCreate(i)
    \/ \E i \in 1..MaxRepos : Repo_UpdateOrCreate(i)
    \/ \E i \in 1..MaxRepos : Repo_Delete(i)
    \/ Caller_Continues

(***************************************************************************)
(* The seeder runner: New(db) keeps the connection, Run(seeders...) hands  *)
(* it to each seeder in turn.                                              *)
(***************************************************************************)
MaxSeeders == 3

SeederNames == {"s1", "s2"}

\* a contract.Seeder: which one it is, and whether its Run returns an error
Seeders == [name : SeederNames, fails : BOOLEAN]

SeederLists == UNION {[1..n -> Seeders] : n \in 0..MaxSeeders}

SeedConnections == {"c1", "c2"}

NoRunner == [pc |-> "idle", connection |-> "none", seeders |-> <<>>, i |-> 0,
             ran |-> <<>>, ret |-> NilErr]

\* %T of a seeder: the name of its dynamic type
TypeOf(s) == IF s.fails THEN "*seeder.errorSeeder" ELSE "*seeder.mockSeeder"

\* s.Run(db) of the seeders at hand: an error of the seeder's own, or nil
SeederRun(s, db) == IF s.fails THEN Errorf(<<"seeder error", s.name>>) ELSE NilErr

\* fmt.Errorf("failed to run seeder %T: %w", s, err)
SeederFailure(s, err) ==
    [msg |-> <<"failed to run seeder ", TypeOf(s), ": ">> \o err.msg, Err |-> err]

\* a runner that carries on with the next seeder after one has failed
Run_Body_GoesOn(sd) ==
    LET s == sd.seeders[sd.i]
        err == SeederRun(s, sd.connection)
        ran == Append(sd.ran, [seeder |-> s, connection |-> sd.connection])
    IN  IF err # NilErr
        THEN [sd EXCEPT !.ran = ran, !.i = @ + 1, !.ret = SeederFailure(s, err)]
        ELSE [sd EXCEPT !.ran = ran, !.i = @ + 1]

\* one turn of the loop of Run: the seeder at position i runs against
\* r.connection; its error ends the call
Run_Body(sd) ==
    LET s == sd.seeders[sd.i]
        err == SeederRun(s, sd.connection)
        ran == Append(sd.ran, [seeder |-> s, connection |-> sd.connection])
    IN  IF err # NilErr
        THEN [sd EXCEPT !.ran = ran, !.pc = "done", !.ret = SeederFailure(s, err)]
        ELSE [sd EXCEPT !.ran = ran, !.i = @ + 1]

\* New(db), once no call of Run is under way
Runner_New ==
    /\ seeding.pc \in {"idle", "done"}
    /\ \E db \in SeedConnections : seeding' = [NoRunner EXCEPT !.connection = db]
    /\ UNCHANGED <<migr, OutsideTools>>

\* r.Run(seeders...) is entered, for the first time or after an earlier call
Runner_Run ==
    /\ seeding.pc \in {"idle", "done"}
    /\ seeding.connection # "none"
    /\ \E list \in SeederLists :
         seeding' = [NoRunner EXCEPT !.connection = seeding.connection,
                                     !.pc = "loop", !.seeders = list, !.i = 1]
    /\ UNCHANGED <<migr, OutsideTools>>

Runner_Run_Seeder ==
    /\ seeding.pc = "loop"
    /\ seeding.i <= Len(seeding.seeders)
    /\ seeding' = Run_Body(seeding)
    /\ UNCHANGED <<migr, OutsideTools>>

\* the range is exhausted: return nil
Runner_Run_Return ==
    /\ seeding.pc = "loop"
    /\ seeding.i > Len(seeding.seeders)
    /\ seeding' = [seeding EXCEPT !.pc = "done", !.ret = NilErr]
    /\ UNCHANGED <<migr, OutsideTools>>

NextSeed ==
    \/ Runner_New
    \/ Runner_Run
    \/ Runner_Run_Seeder
    \/ Runner_Run_Return

(***************************************************************************)
(* NewMigrator: validation, sql.Open, the migration driver, the migrate    *)
(* instance.                                                               *)
(***************************************************************************)
MaxMigrators == 2

DriverMySQL == "mysql"

DriverPostgres == "postgres"

\* paths and DSNs by their characters, so that strings.TrimSpace has work to do
Blank == {<<>>, <<" ">>}

MigrationPaths == Blank \cup {<<"m">>}

DSNs == Blank \cup {<<"d">>}

DriverNames == {"", " ", "mysql", "gorm:mysql", "postgres", "gorm:postgres", "sqlite"}

MigrationConfigs == [MigrationsPath : MigrationPaths, DSN : DSNs, Driver : DriverNames]

\* driver names are whole values here; "" and " " are the ones strings.TrimSpace empties
validateConfigForMigration(mcfg) ==
    IF TrimSpace(mcfg.MigrationsPath) = <<>> THEN ErrorsNew("migrations path is required")
    ELSE IF TrimSpace(mcfg.DSN) = <<>> THEN ErrorsNew("database dsn is required")
    ELSE IF mcfg.Driver \in {"", " "} THEN ErrorsNew("database driver is required")
    ELSE NilErr

mapDriverName(driver) ==
    IF driver \in {"gorm:mysql", DriverMySQL} THEN DriverMySQL
    ELSE IF driver \in {"gorm:postgres", DriverPostgres} THEN DriverPostgres
    ELSE driver

\* sqlDB.Close() of a handle that is not nil; a nil handle is left alone
safeCloseSQLDB(handles, sqlDB) ==
    IF sqlDB = 0 THEN handles ELSE [handles EXCEPT ![sqlDB] = "closed"]

NoMigrator == [pc |-> "idle", cfg |-> [MigrationsPath |-> <<>>, DSN |-> <<>>, Driver |-> ""],
               sqlDB |-> 0, failedAt |-> "none", ret |-> NilErr, migrator |-> FALSE]

MigrStart(handles) == [call |-> NoMigrator, handles |-> handles]

ErrSqlOpen == ErrorsNew("sql: unknown driver or malformed dsn")

ErrWithInstance == ErrorsNew("driver: instance cannot be used")

ErrUnsupported(name) == Errorf(<<"unsupported migration driver: ", name>>)

ErrMigrateInstance == ErrorsNew("migrate: source cannot be opened")

\* migrationDriverFactory.createDriver: the library's WithInstance for the
\* two known names, which may fail, and an error for any other name
createDriver(driverName, fails) ==
    IF driverName \in {DriverMySQL, DriverPostgres}
    THEN IF fails THEN ErrWithInstance ELSE NilErr
    ELSE ErrUnsupported(driverName)

\* NewMigrator(cfg) is entered
NewMigrator_Call ==
    /\ migr.call.pc = "idle"
    /\ Len(migr.handles) < MaxMigrators
    /\ \E mcfg \in MigrationConfigs :
         migr' = [migr EXCEPT !.call = [NoMigrator EXCEPT !.pc = "validate", !.cfg = mcfg]]
    /\ UNCHANGED <<seeding, OutsideTools>>

NewMigrator_Validate ==
    /\ migr.call.pc = "validate"
    /\ LET err == validateConfigForMigration(migr.call.cfg)
       IN  migr' = IF err # NilErr
                   THEN [migr EXCEPT !.call.pc = "done", !.call.failedAt = "validate",
                                     !.call.ret = Wrapf("config validation failed: ", err)]
                   ELSE [migr EXCEPT !.call.pc = "open"]
    /\ UNCHANGED <<seeding, OutsideTools>>

\* sql.Open(sqlDriverName, cfg.DSN): an error, or a new open handle
NewMigrator_Open ==
    /\ migr.call.pc = "open"
    /\ \E fails \in BOOLEAN :
         migr' = IF fails
                 THEN [migr EXCEPT !.call.pc = "done", !.call.failedAt = "open",
                                   !.call.ret = Wrapf("failed to open database for migration: ",
                                                      ErrSqlOpen)]
                 ELSE [migr EXCEPT !.call.pc = "driver",
                                   !.call.sqlDB = Len(migr.handles) + 1,
                                   !.handles = Append(@, "open")]
    /\ UNCHANGED <<seeding, OutsideTools>>

\* factory.createDriver; on its error the handle is cleaned up
NewMigrator_Driver ==
    /\ migr.call.pc = "driver"
    /\ \E fails \in BOOLEAN :
         LET err == createDriver(mapDriverName(migr.call.cfg.Driver), fails)
         IN  migr' = IF err # NilErr
                     THEN [migr EXCEPT !.call.pc = "done", !.call.failedAt = "driver",
                                       !.handles = safeCloseSQLDB(@, migr.call.sqlDB),
                                       !.call.ret = Wrapf("failed to create migration driver: ",
                                                          err)]
                     ELSE [migr EXCEPT !.call.pc = "instance"]
    /\ UNCHANGED <<seeding, OutsideTools>>

\* migrate.NewWithDatabaseInstance; its error is returned as it comes
NewMigrator_Instance ==
    /\ migr.call.pc = "instance"
    /\ \E fails \in BOOLEAN :
         migr' = IF fails
                 THEN [migr EXCEPT !.call.pc = "done", !.call.failedAt = "instance",
                                   !.call.ret = Wrapf("failed to create migrate instance: ",
                                                      ErrMigrateInstance)]
                 ELSE [migr EXCEPT !.call.pc = "done", !.call.migrator = TRUE]
    /\ UNCHANGED <<seeding, OutsideTools>>

\* the caller has the result; the handles stay as the call left them
NewMigrator_Caller ==
    /\ migr.call.pc = "done"
    /\ migr' = [migr EXCEPT !.call = NoMigrator]
    /\ UNCHANGED <<seeding, OutsideTools>>

NextMigrate ==
    \/ NewMigrator_Call
    \/ NewMigrator_Validate
    \/ NewMigrator_Open
    \/ NewMigrator_Driver
    \/ NewMigrator_Instance
    \/ NewMigrator_Caller

ToolsIdle ==
    /\ seeding = NoRunner
    /\ migr = MigrStart(<<>>)

(***************************************************************************)
(* Claims about the repository's operations.                               *)
(***************************************************************************)
NilPositions(models) == {k \in 1..Len(models) : models[k].kind = "nil"}

AskedFor(name) == {k \in 1..Len(rret.calls) : rret.calls[k].call = name}

\* C12 (as claimed): Create with no entities returns no error and asks
\* nothing of the backend; with one non-nil entity it issues one insert
\* without the conversion to a homogeneous collection; with several non-nil
\* entities it converts them and issues one bulk insert; and with a nil
\* entity at a position i, a lone nil at position 0 included, it fails with
\* an error that names index i and writes nothing.
C12_CreateDispatch ==
    rret.op = "Create" =>
      LET models == rret.args.models
          n == Len(models) IN
      /\ n = 0 => rret.err = NilErr /\ rret.calls = <<>>
      /\ NilPositions(models) # {} =>
           /\ rret.err # NilErr
           /\ \E k \in NilPositions(models) : MsgContains(rret.err, ToString(k - 1))
           /\ table = rret.before
           /\ AskedFor("Create") = {}
      /\ n = 1 /\ NilPositions(models) = {} => rret.calls = <<Asked("Create", 1)>>
      /\ n > 1 /\ NilPositions(models) = {} =>
           rret.calls = <<Asked("ToHomogeneous", n), Asked("Create", n)>>

\* the rest of what C12 says, once the lone nil entity is left aside
C12_ExceptLoneNil ==
    (rret.op = "Create" /\ rret.args.models # <<NilModel>>) => C12_CreateDispatch


RECURSIVE SumAsked(_)
SumAsked(cs) == IF cs = <<>> THEN 0 ELSE Head(cs).n + SumAsked(Tail(cs))

Inserts == SelectSeq(rret.calls, LAMBDA c : c.call = "Create")

\* the rows the operation added
Added == DOMAIN table \ DOMAIN rret.before

\* the entities are new to the backend and the backend refuses nothing
Accepted ==
    /\ rret.args.failAt = 0
    /\ \A k \in 1..Len(rret.args.models) : rret.args.models[k].id = 0

\* C13 (as claimed): whatever the entities, CreateInBatches with a batch
\* size of zero or less fails with "batch size must be positive" and writes
\* nothing; with a positive batch size and n valid entities it persists each
\* entity exactly once, in inserts of at most batchSize entities.
C13_CreateInBatches ==
    rret.op = "CreateInBatches" =>
      LET models == rret.args.models
          batchSize == rret.args.batchSize IN
      /\ batchSize <= 0 =>
           /\ rret.err = ErrorsNew("batch size must be positive")
           /\ table = rret.before
           /\ rret.calls = <<>>
      /\ (batchSize > 0 /\ NilPositions(models) = {} /\ Accepted) =>
           /\ rret.err = NilErr
           /\ Cardinality(Added) = Len(models)
           /\ \A id \in DOMAIN rret.before : table[id] = rret.before[id]
           /\ \A k \in 1..Len(Inserts) : Inserts[k].n <= batchSize
           /\ SumAsked(Inserts) = Len(models)

\* the rest of what C13 says, once the empty list with a batch size of zero
\* or less is left aside
C13_ExceptEmpty ==
    (rret.op = "CreateInBatches" /\ rret.args.models # <<>>) => C13_CreateInBatches

\* C14: each write operation (Create, CreateInBatches with a positive
\* batch size, Update, Delete, ForceDelete) given an empty collection returns
\* no error, never reaches the conversion to a homogeneous collection and asks
\* nothing of the backend; the conversion itself fails on an empty collection
\* whatever the element type.
C14_EmptyWritesAreNoOps ==
    /\ (/\ rret.op \in {"Create", "CreateInBatches", "Update", "Delete", "ForceDelete"}
        /\ rret.args.models = <<>>
        /\ rret.op = "CreateInBatches" => rret.args.batchSize > 0)
       => /\ rret.err = NilErr
          /\ rret.calls = <<>>
          /\ table = rret.before
    /\ \A t \in ReflectTypes :
         convertModelsToSlice(<<>>, t).err = ErrorsNew("models slice cannot be empty")

C14_Witness ==
    /\ rret.op = "Delete"
    /\ rret.args.models = <<>>
    /\ rret.err = NilErr
    /\ rret.before # EmptyMap

\* the entities of the Update that reached the backend before it stopped
Reached ==
    IF rret.args.failAt \in 1..Len(rret.args.models)
    THEN rret.args.failAt ELSE Len(rret.args.models)

\* the positions whose update the backend applied to row id
AppliedTo(id) ==
    {k \in 1..Len(rret.args.models) :
        /\ rret.args.models[k].id = id
        /\ k <= Reached /\ k # rret.args.failAt}

\* C15: Update issues one update per entity, in the order given, each
\* aimed at the row whose primary key is the entity's identifier; when the
\* backend refuses the update of entity k the error is returned at once, no
\* entity after k is updated and the updates before k stay applied.
C15_UpdateInOrder ==
    (rret.op = "Update" /\ NilPositions(rret.args.models) = {}) =>
      LET models == rret.args.models
          failAt == rret.args.failAt IN
      /\ rret.calls = [k \in 1..Reached |-> Asked("Update", models[k].id)]
      /\ rret.err = IF failAt \in 1..Len(models) THEN ErrBackend ELSE NilErr
      /\ DOMAIN table = DOMAIN rret.before
      /\ \A id \in DOMAIN table :
           table[id] =
             IF AppliedTo(id) # {} /\ id \in Visible(rret.before, rret.unscoped)
             THEN Patch(rret.before[id],
                        models[CHOOSE k \in AppliedTo(id) : \A j \in AppliedTo(id) : j <= k])
             ELSE rret.before[id]

C15_Witness ==
    /\ rret.op = "Update"
    /\ Len(rret.args.models) = 2
    /\ NilPositions(rret.args.models) = {}
    /\ rret.args.failAt = 2
    /\ rret.err = ErrBackend
    /\ rret.args.models[1].id \in DOMAIN rret.before
    /\ rret.args.models[2].id \in DOMAIN rret.before
    /\ rret.args.models[1].id # rret.args.models[2].id
    /\ table[rret.args.models[1].id] # rret.before[rret.args.models[1].id]
    /\ table[rret.args.models[2].id] # Patch(table[rret.args.models[2].id], rret.args.models[2])

\* the rows the query of the Find or First just run could return
Matching ==
    {k \in Visible(rret.before, rret.unscoped) : rret.args.id = 0 \/ k = rret.args.id}

\* C18: Find and First return no entity and no error exactly when no row
\* matches; FindOrFail and FirstOrFail return ErrRecordNotFound exactly
\* then; every other error of the backend comes back unchanged.
C18_NotFound ==
    rret.op \in {"Find", "First"} =>
      LET plain == rret.result[1]
          orFail == rret.result[2] IN
      /\ (plain.model = NilModel /\ plain.err = NilErr)
           <=> (~rret.args.fail /\ Matching = {})
      /\ orFail.err = DbErrRecordNotFound <=> (~rret.args.fail /\ Matching = {})
      /\ rret.args.fail => plain.err = ErrBackend /\ orFail.err = ErrBackend
      /\ (~rret.args.fail /\ Matching # {}) =>
           /\ plain = [model |-> ModelOf(rret.before, Lowest(Matching)), err |-> NilErr]
           /\ orFail = plain

C18_Witness ==
    /\ rret.op = "Find"
    /\ ~rret.args.fail
    /\ rret.args.id \in DOMAIN rret.before
    /\ rret.before[rret.args.id].deleted
    /\ ~rret.unscoped
    /\ rret.result[1] = [model |-> NilModel, err |-> NilErr]
    /\ rret.result[2].err = DbErrRecordNotFound

\* the keys of the rows a read returned
Returned ==
    IF rret.op \in {"Find", "First"}
    THEN IF rret.result[1].model.kind = "nil" THEN {} ELSE {rret.result[1].model.id}
    ELSE {rret.result[k].id : k \in 1..Len(rret.result)}

SoftDeleted(t) == {id \in DOMAIN t : t[id].deleted}

\* the rows the read just run was asked for
AskedRows ==
    IF rret.op = "Find" THEN DOMAIN rret.before \cap {rret.args.id} ELSE DOMAIN rret.before

\* C11 (as claimed): after Delete(e) of a soft-deletable entity the reads of
\* a default-scoped repository (Find, First, Get) no longer return e while
\* the reads of an Unscoped one still do; after ForceDelete(e) neither
\* returns e.
C11_SoftDelete ==
    /\ (rret.op = "Delete" /\ rret.err = NilErr /\ ~rret.built) =>
          \A id \in KeysOf(rret.args.models) \cap DOMAIN rret.before :
             id \in DOMAIN table /\ table[id].deleted
    /\ (rret.op = "ForceDelete" /\ rret.err = NilErr) =>
          KeysOf(rret.args.models) \cap DOMAIN table = {}
    /\ (rret.op \in {"Find", "First", "Get"} /\ ~rret.args.fail) =>
          /\ Returned \subseteq DOMAIN rret.before
          /\ ~rret.built => Returned \cap SoftDeleted(rret.before) = {}
          /\ (rret.built /\ rret.op # "First") => Returned = AskedRows
          /\ (rret.built /\ rret.op = "First" /\ AskedRows # {}) =>
                Returned = {Lowest(AskedRows)}

\* what C11 says of the repositories whose handle still carries the scope
\* they were built with
C11_WhenScopeAsBuilt == (rret # NoRRet /\ rret.unscoped = rret.built) => C11_SoftDelete

\* the rows visible to the repository that agree with the condition of the
\* upsert just run
CondRows(t) ==
    {k \in Visible(t, rret.unscoped) : Agrees(k, t[k], Content(rret.args.condition))}

\* what FirstOrCreate was asked to create
ToCreate ==
    IF rret.args.create = <<>> THEN Content(rret.args.condition)
    ELSE Content(rret.args.create[1])

\* the same FirstOrCreate called once more
Again == FirstOrCreate(table, rret.unscoped, rret.args.condition, rret.args.create, FALSE)

\* the upsert returned the row it added, whose fields are those of want
AddedAndReturned(want) ==
    /\ Cardinality(Added) = 1
    /\ \A id \in DOMAIN rret.before : table[id] = rret.before[id]
    /\ \A id \in Added :
         /\ table[id] = [name |-> want.name, email |-> want.email, deleted |-> FALSE]
         /\ rret.result[1] = Content(ModelOf(table, id))

Repeated == UpdateOrCreate(table, rret.unscoped, rret.args.condition, rret.args.values, FALSE)

\* the patch leaves the fields that the condition sets as they are
KeepsCondition ==
    \A f \in {"name", "email"} :
       rret.args.condition[f] = "" \/ rret.args.values[f] \in {"", rret.args.condition[f]}

\* what UpdateOrCreate does with the row it finds, or with none
UpdatedOrCreated ==
    /\ CondRows(rret.before) # {} =>
         LET k == Lowest(CondRows(rret.before)) IN
         /\ table = [rret.before EXCEPT ![k] = Patch(@, rret.args.values)]
         /\ rret.result[1] = Content(ModelOf(table, k))
    /\ CondRows(rret.before) = {} =>
         AddedAndReturned(Overlay(Content(rret.args.condition), rret.args.values))
    /\ Overlay(rret.result[1], rret.args.values) = rret.result[1]

\* C17 (as claimed): UpdateOrCreate(condition, valuesPatch) applies the
\* patch to the row matching condition and returns it; when there is none it
\* adds one row whose fields are condition merged with the patch; hence
\* repeated calls with the same condition never add a second row and the row
\* returned always carries the latest patch.
C17_UpdateOrCreateAsClaimed ==
    (rret.op = "UpdateOrCreate" /\ rret.err = NilErr) =>
      /\ UpdatedOrCreated
      /\ DOMAIN Repeated.table = DOMAIN table

\* C17 (amended): the same, the repeated calls adding no second row when
\* the patch leaves the fields that condition sets as they are.
C17_UpdateOrCreate ==
    (rret.op = "UpdateOrCreate" /\ rret.err = NilErr) =>
      /\ UpdatedOrCreated
      /\ KeepsCondition =>
           /\ DOMAIN Repeated.table = DOMAIN table
           /\ Repeated.result[1].id = rret.result[1].id

C17_Witness ==
    /\ rret.op = "UpdateOrCreate"
    /\ rret.err = NilErr
    /\ KeepsCondition
    /\ CondRows(rret.before) # {}
    /\ table # rret.before
    /\ Cardinality(DOMAIN table) = MaxRows

\* C26 (as claimed): Update validates before it writes: with a nil entity
\* anywhere in the list it returns the "model cannot be nil" error and has
\* updated no row.
C26_UpdateValidatesFirst ==
    (rret.op = "Update" /\ NilPositions(rret.args.models) # {}) =>
        /\ rret.err = ErrorsNew("model cannot be nil")
        /\ table = rret.before
        /\ rret.calls = <<>>

\* what C26 says of the lists whose first entity is nil
C26_WhenNilComesFirst ==
    (rret.op = "Update" /\ 1 \in NilPositions(rret.args.models)) => C26_UpdateValidatesFirst

(***************************************************************************)
(* Claims about the clause operations.                                     *)
(***************************************************************************)
\* the builder the latest clause operation returned, and the clauses it has
\* that its receiver did not have
Result == View(slots[Len(slots)], heap)

NewClauses ==
    SubSeq(Result.clauses, Len(lastOp.before.clauses) + 1, Len(Result.clauses))

RepositoryOrderBy == lastOp.op = "OrderBy" /\ slots[Len(slots)].kind = "repo"

\* the ordering clause of column and direction dir
Ordering(column, dir) == <<"order", <<column, dir>>>>

\* C21 (as claimed): Repository.OrderBy(column, direction) orders by ASC for
\* every direction that is not, ignoring case, exactly "ASC" or "DESC"; for a
\* column outside the safe-identifier grammar it adds no ordering clause and
\* raises no error.
C21_OrderByAsClaimed ==
    RepositoryOrderBy =>
        LET column == lastOp.arg[1]
            direction == lastOp.arg[2] IN
        /\ ~validateColumnName(column) => Result = lastOp.before
        /\ (validateColumnName(column) /\ ToUpper(direction) \notin {ASC, DESC}) =>
              NewClauses = <<Ordering(column, ASC)>>

\* C21 (amended): the same with the direction compared once the white
\* space around it is removed; a direction that then is, ignoring case, "ASC"
\* or "DESC" orders by that direction in upper case.
C21_OrderByNormalizes ==
    RepositoryOrderBy =>
        LET column == lastOp.arg[1]
            direction == ToUpper(TrimSpace(lastOp.arg[2])) IN
        /\ ~validateColumnName(column) => Result = lastOp.before
        /\ validateColumnName(column) =>
              /\ NewClauses =
                   <<Ordering(column, IF direction \in {ASC, DESC} THEN direction ELSE ASC)>>
              /\ Result = [lastOp.before EXCEPT !.clauses = @ \o NewClauses]

C21_Witness ==
    /\ RepositoryOrderBy
    /\ lastOp.arg[2] = <<"D", "E", "S", "C", " ">>
    /\ NewClauses = <<Ordering(<<"a", ".", "b">>, DESC)>>
    /\ Len(lastOp.before.clauses) > 0

\* what Repository.OrderBy adds for a column and a direction
RepositoryAdds(column, direction) ==
    IF validateColumnName(column)
    THEN <<Ordering(column, validateOrderDirection(direction, ASC))>> ELSE <<>>

\* C27 (as claimed): QueryBuilder.OrderBy and Repository.OrderBy treat the
\* same column and direction alike: both add the same ordering clause or both
\* add none, and a column outside the safe-identifier grammar reaches the
\* ordering clause through neither.
C27_OrderByAlike ==
    lastOp.op = "OrderBy" =>
        /\ NewClauses = RepositoryAdds(lastOp.arg[1], lastOp.arg[2])
        /\ \A k \in 1..Len(NewClauses) : validateColumnName(NewClauses[k][2][1])

\* what C27 says of the columns inside the grammar
C27_SafeColumnsAlike ==
    (lastOp.op = "OrderBy" /\ validateColumnName(lastOp.arg[1])) => C27_OrderByAlike

\* C22 (as claimed): Limit(n) and Offset(n), of Repository and of
\* QueryBuilder: with n < 0 the builder returned has the limit, the offset and
\* the other clauses of the receiver; with n >= 0, 0 included, its limit (its
\* offset) is exactly n and all the rest is the receiver's.
C22_LimitOffset ==
    lastOp.op \in {"Limit", "Offset"} =>
        LET n == lastOp.arg[1] IN
        /\ n < 0 => Result = lastOp.before
        /\ (n >= 0 /\ lastOp.op = "Limit") =>
              Result = [lastOp.before EXCEPT !.limit = {n}]
        /\ (n >= 0 /\ lastOp.op = "Offset") =>
              Result = [lastOp.before EXCEPT !.offset = {n}]

\* what C22 says when the receiver carries no positive offset or the
\* argument is not 0
C22_ExceptOffsetZero ==
    (lastOp.op \in {"Limit", "Offset"}
        /\ ~(lastOp.op = "Offset" /\ lastOp.arg[1] = 0
                /\ \E k \in lastOp.before.offset : k > 0))
      => C22_LimitOffset

\* C23: QueryBuilder.Exists issues one Count and no other query and
\* returns whether the count is above 0 together with the error of the
\* Count; when the Count fails it returns false with that error.
C23_ExistsFromCount ==
    rret.op = "Exists" =>
        /\ rret.calls = <<Asked("Count", 0)>>
        /\ table = rret.before
        /\ rret.args.fail => rret.result = <<FALSE>> /\ rret.err = ErrBackend
        /\ ~rret.args.fail =>
              /\ rret.result = <<Visible(rret.before, rret.unscoped) # {}>>
              /\ rret.err = NilErr

C23_Witness ==
    /\ rret.op = "Exists"
    /\ rret.args.fail
    /\ Visible(rret.before, rret.unscoped) # {}
    /\ rret.result = <<FALSE>>
    /\ rret.err = ErrBackend

(***************************************************************************)
(* Claims about failing registrations.                                     *)
(***************************************************************************)
Panicked(p) ==
    /\ pc[p] = "exit"
    /\ op[p] \in {"Register", "RegisterAdapter"}
    /\ ret[p].panic # NoPanic

\* C25 (as claimed): a RegisterAdapter call that panics leaves the adapter
\* registry as it was before the call: none of the names given to it becomes
\* bound or bound anew, also when several names are given and only a later
\* one is empty.
C25_FailedRegisterAdapterBindsNothing ==
    \A p \in Procs :
        (Panicked(p) /\ op[p] = "RegisterAdapter") => adapters = ret[p].before

\* the steps that take a call of goroutine p, once it holds or has asked for
\* the lock, to its end
Finish(p) ==
    \/ Register_Enter(p) \/ Register_Body(p) \/ Register_Unlock(p)
    \/ Get_Body(p) \/ Get_RUnlock(p)
    \/ List_Body(p) \/ List_RUnlock(p)
    \/ RegisterAdapter_Enter(p) \/ RegisterAdapter_Body(p) \/ RegisterAdapter_Unlock(p)
    \/ GetAdapter_Body(p) \/ GetAdapter_RUnlock(p)

\* C28: a Register or RegisterAdapter that panics on invalid input releases
\* the registry lock it took; every call in progress comes to its end, and
\* when none is in progress both locks are free, so that a later Get, List or
\* Register can take them.
C28_PanicReleasesLock ==
    /\ \A p \in Procs :
          Panicked(p) ~> (pc[p] = "idle" /\ mu.w # p /\ adaptersMu.w # p)
    /\ \A p \in Procs : (pc[p] # "idle") ~> (pc[p] = "idle")
    /\ [](Quiescent => (mu = FreeMutex /\ adaptersMu = FreeMutex))

C28_Witness ==
    \E p, q \in Procs :
        /\ Panicked(p) /\ op[p] = "Register"
        /\ mu.w = p
        /\ q # p /\ pc[q] = "idle"
        /\ DOMAIN factories # {}

(***************************************************************************)
(* Claims about what Connect returns.                                      *)
(***************************************************************************)
\* C29 (as claimed): whatever the adapter does, Connect returns either a
\* connection and a nil error or no connection and an error, never neither
\* and never both; also when the adapter's Connect returns no connection
\* and no error.
C29_ConnectionXorError ==
    cpc = "done" =>
        /\ cret.panic = NoPanic
        /\ \/ cret.conn # Nil /\ cret.err = NilErr
           \/ cret.conn = Nil /\ cret.err # NilErr

\* what C29 says of the adapters that return a connection or an error
C29_ExceptNeither ==
    (cpc = "done" /\ \A i \in CallsNamed("Adapter.Connect") :
                        ~(calls[i].err = NilErr /\ cConn = Nil))
        => C29_ConnectionXorError

(***************************************************************************)
(* Claims about the seeder runner and the migrator.                        *)
(***************************************************************************)
FailingSeeders == {k \in 1..Len(seeding.seeders) : seeding.seeders[k].fails}

\* the position at which Run is to stop: the first failing seeder, or the last one
LastToRun == IF FailingSeeders = {} THEN Len(seeding.seeders) ELSE Lowest(FailingSeeders)

\* C24: at every moment of Runner.Run(s1..sn) the seeders that have run are
\* s1..sk in argument order, each once, each against the runner's connection,
\* and none after the first one that fails; when Run has returned, k is the
\* position of the first failing seeder and the error returned wraps that
\* seeder's error, or, when none fails, k = n and nil is returned (also for
\* the empty list).
C24_SeedersInOrder ==
    seeding.pc \in {"loop", "done"} =>
        /\ Len(seeding.ran) <= LastToRun
        /\ \A k \in 1..Len(seeding.ran) :
             seeding.ran[k] = [seeder |-> seeding.seeders[k], connection |-> seeding.connection]
        /\ seeding.pc = "done" =>
             /\ Len(seeding.ran) = LastToRun
             /\ FailingSeeders = {} => seeding.ret = NilErr
             /\ FailingSeeders # {} =>
                  /\ seeding.ret # NilErr
                  /\ Wraps(seeding.ret,
                           SeederRun(seeding.seeders[LastToRun], seeding.connection))

\* Run has stopped at the second of three seeders
C24_Witness ==
    /\ seeding.pc = "done"
    /\ Len(seeding.seeders) = 3
    /\ LastToRun = 2
    /\ Len(seeding.ran) = 2
    /\ seeding.ret # NilErr

\* C30: a NewMigrator call that returns an error after its sql.Open has
\* succeeded has closed the handle it opened - when the migration driver
\* could not be created and when the migrate instance could not be created
\* alike.
C30_FailureClosesHandle ==
    (migr.call.pc = "done" /\ migr.call.ret # NilErr /\ migr.call.sqlDB # 0)
        => migr.handles[migr.call.sqlDB] = "closed"

\* the same for the failures of createDriver alone, and nothing is closed
\* when NewMigrator succeeds
C30_DriverFailureClosesHandle ==
    (migr.call.pc = "done" /\ migr.call.sqlDB # 0) =>
        /\ migr.call.failedAt = "driver" => migr.handles[migr.call.sqlDB] = "closed"
        /\ migr.call.ret = NilErr => migr.handles[migr.call.sqlDB] = "open"

(***************************************************************************)
(* The specifications.                                                     *)
(***************************************************************************)
vars == <<regVars, connVars, bldVars, txVars, brVars, repoVars, toolVars>>

\* the parts a specification does not exercise, at rest
BridgeIdle ==
    /\ BridgeStart
    /\ bridge.models = <<>>
    /\ bridge.modelType = [name |-> "TestModel", ptr |-> FALSE]

TxIdle == TxStart /\ txCfg = DefaultTxConfig

InitRegistry ==
    /\ RegistryStart /\ ConnectStart /\ BuilderStart /\ TxIdle /\ BridgeIdle /\ RepoStart /\ ToolsIdle
    /\ target \in {"factories", "adapters"}

NextRegistry ==
    \E p \in Procs :
        \/ Register_Lock(p) \/ Register_Enter(p) \/ Register_Body(p) \/ Register_Unlock(p)
        \/ Get_RLock(p) \/ Get_Body(p) \/ Get_RUnlock(p)
        \/ List_RLock(p) \/ List_Body(p) \/ List_RUnlock(p)
        \/ RegisterAdapter_Lock(p) \/ RegisterAdapter_Enter(p)
        \/ RegisterAdapter_Body(p) \/ RegisterAdapter_Unlock(p)
        \/ GetAdapter_RLock(p) \/ GetAdapter_Body(p) \/ GetAdapter_RUnlock(p)

InitConnect ==
    /\ RegistryStart /\ target = "adapters" /\ ConnectStart /\ BuilderStart
    /\ TxIdle /\ BridgeIdle /\ RepoStart /\ ToolsIdle

InitBuilder ==
    /\ RegistryStart /\ target = "adapters" /\ ConnectStart /\ BuilderStart
    /\ TxIdle /\ BridgeIdle /\ RepoStart /\ ToolsIdle

InitTx ==
    /\ RegistryStart /\ target = "adapters" /\ ConnectStart /\ BuilderStart
    /\ TxStart /\ BridgeIdle /\ RepoStart /\ ToolsIdle

InitBridge ==
    /\ RegistryStart /\ target = "adapters" /\ ConnectStart /\ BuilderStart
    /\ TxIdle /\ BridgeStart /\ RepoStart /\ ToolsIdle

SpecRegistry == InitRegistry /\ [][NextRegistry]_vars

\* the scheduler lets every goroutine that can go on with its call do so
SpecRegistryLive == SpecRegistry /\ \A p \in Procs : WF_vars(Finish(p))

SpecConnect == InitConnect /\ [][NextConnect]_vars

SpecBuilder == InitBuilder /\ [][NextBuilder]_vars

SpecTx == InitTx /\ [][NextTx]_vars

SpecBridge == InitBridge /\ [][NextBridge]_vars

InitRepo ==
    /\ RegistryStart /\ ConnectStart /\ BuilderStart /\ TxIdle /\ BridgeIdle /\ RepoStart /\ ToolsIdle
    /\ target = "adapters"

SpecRepo == InitRepo /\ [][NextRepo]_vars

SpecUpsert == InitRepo /\ [][NextUpsert]_vars

InitTools ==
    /\ RegistryStart /\ ConnectStart /\ BuilderStart /\ TxIdle /\ BridgeIdle /\ RepoStart /\ ToolsIdle
    /\ target = "adapters"

SpecSeed == InitTools /\ [][NextSeed]_vars

SpecMigrate == InitTools /\ [][NextMigrate]_vars

====
